---- MODULE Spec2Model ----
(***************************************************************************)
(* Atlas.AI: the geospatial suitability and competitive-analysis engine.   *)
(*                                                                         *)
(*   LocationRecommender.find_best_locations   (rank_areas)                *)
(*   AreaBusinessAnalyzer.analyze_area         (analyze_area)              *)
(*                                                                         *)
(* Numbers.  Scores are Python floats rounded to two decimals; they are    *)
(* kept here as integers in hundredths of a point (100.00 is 10000).       *)
(* round(x, 2) is RoundDiv: nearest hundredth, an exact tie going to the   *)
(* even neighbour as Python's round does.  Raw criterion values and POI    *)
(* counts are integers.                                                    *)
(*                                                                         *)
(* Geometry.  Coordinates are integers in a local kilometre frame around   *)
(* the city: one unit of lat is 1/111 degree and one unit of lon is        *)
(* 1/(111*cos(lat)) degree, so that the lat_delta and lon_delta of         *)
(* _simple_radius_count are both radius_km units.                          *)
(*                                                                         *)
(* Environment.  The database answers every query (execute_query does not  *)
(* raise); the isochrone provider answers each request in any of the ways  *)
(* listed in ProviderResponses.                                            *)
(***************************************************************************)
EXTENDS Integers, Sequences, FiniteSets, TLC

VARIABLES
    csv,                 \* the area-scores CSV file on disk
    area_with_centroid,  \* table area_with_centroid: rows [name, lon, lat]
    delhi_area,          \* table delhi_area: rows [name, geom]
    points_super,        \* table points_super: rows [name, super_category, lon, lat]
    areas_df,            \* LocationRecommender.areas_df
    request,             \* arguments of the call in progress
    pc,                  \* position of the caller / of find_best_locations
    top_10,              \* find_best_locations: top_10_df
    idx,                 \* find_best_locations: rows of top_10_df already visited
    results,             \* find_best_locations: results
    provider,            \* the isochrone provider's answer for the candidate last visited
    catchments,          \* history: how each entry of results was counted
    result,              \* outcome of the call: a returned value or a raised exception
    first,               \* outcome and catchments of the previous call with the same arguments
    frame,               \* analyze_area's local variables when it returned or raised
    cache_instance,      \* a cache tier: its maxsize, its ttl and its entries, oldest first
    clock,               \* the cache's timer
    thread,              \* per request thread: its position in a cached call and the call's outcome
    quicksort            \* the order this build's quicksort leaves equal keys in

vars == <<csv, area_with_centroid, delhi_area, points_super, areas_df, request, pc,
          top_10, idx, results, provider, catchments, result, first, frame,
          cache_instance, clock, thread, quicksort>>

\* The variables of the caching layer, and those of the two services.
cacheVars == <<cache_instance, clock, thread>>

serviceVars == <<csv, area_with_centroid, delhi_area, points_super, areas_df, request, pc,
                 top_10, idx, results, provider, catchments, result, first, frame,
                 quicksort>>

(***************************************************************************)
(* Bounds of the model.                                                    *)
(***************************************************************************)
MaxAreas == 3
MaxPois == 2

-----------------------------------------------------------------------------
(***************************************************************************)
(* Generic helpers.                                                        *)
(***************************************************************************)
Range(s) == {s[i] : i \in DOMAIN s}

Abs(x) == IF x < 0 THEN -x ELSE x

Min(S) == CHOOSE x \in S : \A y \in S : x <= y

Max(S) == CHOOSE x \in S : \A y \in S : x >= y

RECURSIVE SumSeq(_)
SumSeq(s) == IF s = <<>> THEN 0 ELSE Head(s) + SumSeq(Tail(s))

\* Python's round to the nearest integer multiple: n/d for n >= 0 and d > 0,
\* an exact tie going to the even neighbour.
RoundDiv(n, d) ==
    LET q == n \div d
        r == n % d
    IN  IF 2 * r > d THEN q + 1
        ELSE IF 2 * r < d THEN q
        ELSE IF q % 2 = 0 THEN q ELSE q + 1

\* A stable sort by descending key: list.sort(key=..., reverse=True) keeps equal
\* keys in their original order.
RECURSIVE InsertDesc(_, _, _)
InsertDesc(sorted, x, key) ==
    IF sorted = <<>> THEN <<x>>
    ELSE IF sorted[1][key] >= x[key]
         THEN <<sorted[1]>> \o InsertDesc(Tail(sorted), x, key)
         ELSE <<x>> \o sorted

RECURSIVE SortDesc(_, _)
SortDesc(s, key) ==
    IF s = <<>> THEN <<>>
    ELSE InsertDesc(SortDesc(SubSeq(s, 1, Len(s) - 1), key), s[Len(s)], key)

Reverse(s) == [i \in DOMAIN s |-> s[Len(s) + 1 - i]]

\* The orders an unstable sort may leave equal keys in: the original one, and the
\* reverse of it.
TieOrders == {"kept", "reversed"}

\* DataFrame.sort_values(key, ascending=False) with the default kind='quicksort',
\* which is not stable: equal keys come out in the order of this build.
sort_values(s, key) ==
    IF quicksort = "kept" THEN SortDesc(s, key) ELSE SortDesc(Reverse(s), key)

-----------------------------------------------------------------------------
(***************************************************************************)
(* location_recommender.py: the static tables.                             *)
(***************************************************************************)
Criteria ==
    << "Score_Population_Density", "Score_Footfall", "Score_Transit", "Score_Traffic",
       "Score_Rent_Value", "Score_Parking", "Score_Night_Activity", "Score_Walkability",
       "Score_POI_Synergy", "Score_Safety" >>

\* One weight vector, in the order of Criteria, in hundredths of a percent.
WeightVector(v) == [i \in 1..Len(Criteria) |-> [feature |-> Criteria[i], weight |-> v[i]]]

WEIGHTS ==
    ( "Accommodation & Lodging" :>
          WeightVector(<<1500, 2000, 1200, 500, 800, 800, 500, 800, 800, 600>>) @@
      "Education & Training" :>
          WeightVector(<<2800, 1000, 1200, 800, 800, 1500, 0, 500, 500, 500>>) @@
      "Entertainment & Leisure" :>
          WeightVector(<<2000, 2500, 1000, 500, 300, 800, 1500, 800, 200, 100>>) @@
      "Financial & Legal Services" :>
          WeightVector(<<2000, 500, 1200, 800, 1500, 800, 0, 800, 1200, 400>>) @@
      "Fitness & Wellness" :>
          WeightVector(<<2500, 2000, 800, 300, 500, 1000, 800, 1000, 500, 300>>) @@
      "Food & Beverages" :>
          WeightVector(<<2000, 3000, 500, 300, 300, 500, 1500, 1200, 300, 200>>) @@
      "Government & Public Services" :>
          WeightVector(<<2500, 1000, 1500, 800, 300, 1200, 0, 500, 800, 200>>) @@
      "Health & Medical" :>
          WeightVector(<<3000, 1500, 1000, 300, 500, 1200, 0, 800, 700, 500>>) @@
      "Other / Misc" :>
          WeightVector(<<909, 909, 909, 909, 909, 909, 909, 909, 909, 909>>) @@
      "Parks & Outdoor Recreation" :>
          WeightVector(<<2500, 2000, 1200, 300, 500, 1000, 200, 1200, 500, 600>>) @@
      "Religious & Spiritual Places" :>
          WeightVector(<<2800, 1500, 1000, 300, 300, 800, 500, 800, 500, 500>>) @@
      "Shopping & Retail" :>
          WeightVector(<<2500, 2500, 800, 500, 500, 1000, 500, 1000, 200, 200>>) @@
      "Transport & Auto Services" :>
          WeightVector(<<1500, 1000, 1500, 2500, 500, 1000, 300, 500, 500, 200>>) )

COMPLEMENTARY_CATEGORIES ==
    ( "Food & Beverages" :>
          <<"Shopping & Retail", "Entertainment & Leisure", "Parks & Outdoor Recreation",
            "Transport & Auto Services", "Fitness & Wellness">> @@
      "Fitness & Wellness" :>
          <<"Food & Beverages", "Health & Medical", "Parks & Outdoor Recreation",
            "Shopping & Retail", "Accommodation & Lodging">> @@
      "Health & Medical" :>
          <<"Fitness & Wellness", "Food & Beverages", "Shopping & Retail",
            "Transport & Auto Services", "Accommodation & Lodging">> @@
      "Shopping & Retail" :>
          <<"Food & Beverages", "Entertainment & Leisure", "Transport & Auto Services",
            "Fitness & Wellness", "Accommodation & Lodging">> @@
      "Entertainment & Leisure" :>
          <<"Food & Beverages", "Shopping & Retail", "Transport & Auto Services",
            "Accommodation & Lodging", "Parks & Outdoor Recreation">> @@
      "Education & Training" :>
          <<"Food & Beverages", "Shopping & Retail", "Transport & Auto Services",
            "Accommodation & Lodging", "Parks & Outdoor Recreation">> @@
      "Accommodation & Lodging" :>
          <<"Food & Beverages", "Entertainment & Leisure", "Shopping & Retail",
            "Transport & Auto Services", "Parks & Outdoor Recreation">> @@
      "Transport & Auto Services" :>
          <<"Food & Beverages", "Shopping & Retail", "Accommodation & Lodging",
            "Entertainment & Leisure", "Financial & Legal Services">> @@
      "Financial & Legal Services" :>
          <<"Shopping & Retail", "Food & Beverages", "Government & Public Services",
            "Transport & Auto Services", "Accommodation & Lodging">> @@
      "Government & Public Services" :>
          <<"Financial & Legal Services", "Food & Beverages", "Transport & Auto Services",
            "Shopping & Retail", "Parks & Outdoor Recreation">> @@
      "Parks & Outdoor Recreation" :>
          <<"Food & Beverages", "Fitness & Wellness", "Entertainment & Leisure",
            "Shopping & Retail", "Accommodation & Lodging">> @@
      "Religious & Spiritual Places" :>
          <<"Food & Beverages", "Shopping & Retail", "Parks & Outdoor Recreation",
            "Transport & Auto Services", "Accommodation & Lodging">> @@
      "Other / Misc" :>
          <<"Food & Beverages", "Shopping & Retail", "Transport & Auto Services">> )

VALID_SUPER_CATEGORIES == DOMAIN WEIGHTS

\* dict.get(key, default)
DictGet(d, key, default) == IF key \in DOMAIN d THEN d[key] ELSE default

\* head(10) of calculate_area_scores
TopN == 10

\* The three terms of the composite score, in percent.
AreaWeight == 60
OpportunityWeight == 20
EcosystemWeight == 20

\* results[:3]
TopK == 3

-----------------------------------------------------------------------------
(***************************************************************************)
(* location_recommender.py: LocationRecommender.                           *)
(***************************************************************************)
None == [kind |-> "None"]

\* A returned value and a raised exception, as the outcome of a call.
Return(value) == [kind |-> "return", value |-> value]

Raise(exception) == [kind |-> "raise", exception |-> exception]

\* _load_area_scores: pd.read_csv, FileNotFoundError alone being caught.
LoadAreaScores(file) ==
    IF file.status = "missing" THEN Return(None)
    ELSE IF file.status = "unreadable" THEN Raise(file.exception)
    ELSE Return([kind |-> "DataFrame", rows |-> file.rows])

\* The inner loop of calculate_area_scores: the weighted sum of one row, in
\* ten-thousandths of a point (raw value times weight in hundredths of a percent).
RECURSIVE WeightedSum(_, _)
WeightedSum(row, weights) ==
    IF weights = <<>> THEN 0
    ELSE (IF weights[1].feature \in DOMAIN row.raw
          THEN row.raw[weights[1].feature] * weights[1].weight
          ELSE 0)
         + WeightedSum(row, Tail(weights))

\* Scoring every category with the fallback vector.
WeightsForFallback(super_category) == WEIGHTS["Other / Misc"]

\* The weight vector calculate_area_scores scores with.
WeightsFor(super_category) == DictGet(WEIGHTS, super_category, WEIGHTS["Other / Misc"])

AreaScoreRow(row, weights) ==
    [area |-> row.name, area_score |-> RoundDiv(WeightedSum(row, weights), 100)]

\* DataFrame.head(n)
HeadRows(s, n) == SubSeq(s, 1, IF Len(s) < n THEN Len(s) ELSE n)

\* calculate_area_scores: the outcome is the top-10 frame, or the KeyError that
\* sort_values('area_score') raises on the column-less frame built from no rows.
calculate_area_scores(df, super_category) ==
    IF df = None THEN Return(<<>>)
    ELSE LET weights == WeightsFor(super_category)
             scores == [i \in DOMAIN df.rows |-> AreaScoreRow(df.rows[i], weights)]
         IN  IF scores = <<>> THEN Raise("KeyError")
             ELSE Return(HeadRows(sort_values(scores, "area_score"), TopN))

\* get_area_centroids: the rows of area_with_centroid whose name is asked for.
get_area_centroids(area_names) ==
    IF area_names = <<>> THEN {}
    ELSE {[name |-> r.name, lon |-> r.lon, lat |-> r.lat] :
              r \in {t \in area_with_centroid : t.name \in Range(area_names)}}

\* A lookup that places an area without a centroid at the origin.
CentroidOfOrOrigin(centroid_map, area_name) ==
    IF \E c \in centroid_map : c.name = area_name
    THEN CHOOSE c \in centroid_map : c.name = area_name
    ELSE [name |-> area_name, lon |-> 0, lat |-> 0]

\* centroid_map.get(area_name)
CentroidOf(centroid_map, area_name) ==
    IF \E c \in centroid_map : c.name = area_name
    THEN CHOOSE c \in centroid_map : c.name = area_name
    ELSE None

\* What requests.get and raise_for_status yield for an isochrone request.  The
\* provider's polygon is the set of points whose road distance (|dx| + |dy|)
\* from the requested point is within the requested distance.
ProviderKinds ==
    {"polygon", "timeout", "http_error", "non_success", "no_data", "no_geometry",
     "malformed_geometry"}

ProviderAnswer(kind, lat, lon, distance_km) ==
    CASE kind = "timeout" -> [raises |-> "Timeout"]
      [] kind = "http_error" -> [raises |-> "HTTPError"]
      [] kind = "non_success" -> [json |-> [status |-> "failed"]]
      [] kind = "no_data" -> [json |-> [status |-> "success"]]
      [] kind = "no_geometry" ->
            [json |-> [status |-> "success", data |-> [type |-> "Feature"]]]
      [] kind = "malformed_geometry" ->
            [json |-> [status |-> "success",
                       data |-> [type |-> "Feature", geometry |-> [type |-> "Polygon"]]]]
      [] kind = "polygon" ->
            [json |-> [status |-> "success",
                       data |-> [type |-> "Feature",
                                 geometry |-> [type |-> "Polygon", lat |-> lat, lon |-> lon,
                                               reach |-> distance_km]]]]

ProviderFailures == ProviderKinds \ {"polygon"}

\* LatLongClient._make_request: a RequestException becomes an error value.
MakeRequest(answer) ==
    IF "raises" \in DOMAIN answer
    THEN [status |-> "error", error |-> answer.raises]
    ELSE answer.json

\* shapely's shape(): the geometry, or an exception on a geometry without coordinates.
Shape(geometry) ==
    IF {"lat", "lon", "reach"} \subseteq DOMAIN geometry
    THEN Return([kind |-> "Polygon", lat |-> geometry.lat, lon |-> geometry.lon,
                 reach |-> geometry.reach])
    ELSE Raise("ValueError")

\* get_isochrone_polygon, given what the request yielded.
get_isochrone_polygon(answer) ==
    LET response == MakeRequest(answer)
    IN  IF response.status = "success" /\ "data" \in DOMAIN response
        THEN IF "geometry" \in DOMAIN response.data
             THEN LET made == Shape(response.data.geometry)
                  IN  IF made.kind = "raise" THEN None ELSE made.value
             ELSE None
        ELSE None

\* ST_Contains(polygon, geom)
Contains(polygon, p) ==
    Abs(p.lat - polygon.lat) + Abs(p.lon - polygon.lon) <= polygon.reach

\* x BETWEEN lo AND hi
Between(x, lo, hi) == lo <= x /\ x <= hi

\* count_pois_in_polygon: <<competitor_count, complementary_count>>
count_pois_in_polygon(polygon, super_category, complementary_categories) ==
    IF polygon = None THEN <<0, 0>>
    ELSE << IF super_category # ""
            THEN Cardinality({p \in points_super :
                                 p.super_category = super_category /\ Contains(polygon, p)})
            ELSE 0,
            IF complementary_categories # <<>>
            THEN Cardinality({p \in points_super :
                                 /\ p.super_category \in Range(complementary_categories)
                                 /\ Contains(polygon, p)})
            ELSE 0 >>

\* _simple_radius_count with the longitude bounds left out of the queries.
simple_radius_count_lat_only(lat, lon, radius_km, super_category, complementary_cats) ==
    LET InBand(p) == Between(p.lat, lat - radius_km, lat + radius_km)
    IN  << Cardinality({p \in points_super : p.super_category = super_category /\ InBand(p)}),
           IF complementary_cats # <<>>
           THEN Cardinality({p \in points_super :
                                p.super_category \in Range(complementary_cats) /\ InBand(p)})
           ELSE 0 >>

\* _simple_radius_count: <<competitor_count, complementary_count>>
simple_radius_count(lat, lon, radius_km, super_category, complementary_cats) ==
    LET lat_delta == radius_km
        lon_delta == radius_km
        min_lat == lat - lat_delta
        max_lat == lat + lat_delta
        min_lon == lon - lon_delta
        max_lon == lon + lon_delta
        InBox(p) == Between(p.lat, min_lat, max_lat) /\ Between(p.lon, min_lon, max_lon)
    IN  << Cardinality({p \in points_super : p.super_category = super_category /\ InBox(p)}),
           IF complementary_cats # <<>>
           THEN Cardinality({p \in points_super :
                                p.super_category \in Range(complementary_cats) /\ InBox(p)})
           ELSE 0 >>

\* normalize_score without the division by the range.
normalize_score_unscaled(value, all_values, inverse) ==
    IF all_values = <<>> THEN [num |-> 50, den |-> 1]
    ELSE LET min_val == Min(Range(all_values))
             max_val == Max(Range(all_values))
         IN  IF max_val = min_val THEN [num |-> 50, den |-> 1]
             ELSE IF inverse
                  THEN [num |-> (max_val - value) * 100, den |-> 1]
                  ELSE [num |-> (value - min_val) * 100, den |-> 1]

\* normalize_score with the degenerate case sent to the bottom of the scale.
normalize_score_zero(value, all_values, inverse) ==
    IF all_values = <<>> THEN [num |-> 0, den |-> 1]
    ELSE LET min_val == Min(Range(all_values))
             max_val == Max(Range(all_values))
         IN  IF max_val = min_val THEN [num |-> 0, den |-> 1]
             ELSE IF inverse
                  THEN [num |-> (max_val - value) * 100, den |-> max_val - min_val]
                  ELSE [num |-> (value - min_val) * 100, den |-> max_val - min_val]

\* normalize_score without the inversion for competitors.
normalize_score_not_inverted(value, all_values, inverse) ==
    IF all_values = <<>> THEN [num |-> 50, den |-> 1]
    ELSE LET min_val == Min(Range(all_values))
             max_val == Max(Range(all_values))
         IN  IF max_val = min_val THEN [num |-> 50, den |-> 1]
             ELSE [num |-> (value - min_val) * 100, den |-> max_val - min_val]

\* normalize_score: the value before rounding, as the fraction num/den.
normalize_score(value, all_values, inverse) ==
    IF all_values = <<>> THEN [num |-> 50, den |-> 1]
    ELSE LET min_val == Min(Range(all_values))
             max_val == Max(Range(all_values))
         IN  IF max_val = min_val THEN [num |-> 50, den |-> 1]
             ELSE IF inverse
                  THEN [num |-> (max_val - value) * 100, den |-> max_val - min_val]
                  ELSE [num |-> (value - min_val) * 100, den |-> max_val - min_val]

\* round(x, 2) of a fraction, in hundredths.
Round2(x) == RoundDiv(x.num * 100, x.den)

\* Steps 5 and 6 with the weights of area_score and opportunity_score exchanged.
ScoredWeightsExchanged(r, all_competitors, all_complementary) ==
    LET opportunity_score == Round2(normalize_score(r.competitors, all_competitors, TRUE))
        ecosystem_score == Round2(normalize_score(r.complementary, all_complementary, FALSE))
    IN  [area |-> r.area, area_score |-> r.area_score, centroid |-> r.centroid,
         competitors |-> r.competitors, complementary |-> r.complementary,
         opportunity_score |-> opportunity_score,
         ecosystem_score |-> ecosystem_score,
         composite_score |->
             RoundDiv(r.area_score * OpportunityWeight + opportunity_score * AreaWeight
                        + ecosystem_score * EcosystemWeight, 100)]

\* Steps 5 and 6 of find_best_locations for one entry of results.
Scored(r, all_competitors, all_complementary) ==
    LET opportunity_score == Round2(normalize_score(r.competitors, all_competitors, TRUE))
        ecosystem_score == Round2(normalize_score(r.complementary, all_complementary, FALSE))
    IN  [area |-> r.area, area_score |-> r.area_score, centroid |-> r.centroid,
         competitors |-> r.competitors, complementary |-> r.complementary,
         opportunity_score |-> opportunity_score,
         ecosystem_score |-> ecosystem_score,
         composite_score |->
             RoundDiv(r.area_score * AreaWeight + opportunity_score * OpportunityWeight
                        + ecosystem_score * EcosystemWeight, 100)]

\* The tail of find_best_locations, sorting by area_score instead.
RankingByAreaScore(super_category, complementary_cats, isochrone_distance_km, rs) ==
    LET all_competitors == [i \in DOMAIN rs |-> rs[i].competitors]
        all_complementary == [i \in DOMAIN rs |-> rs[i].complementary]
        scored == [i \in DOMAIN rs |-> Scored(rs[i], all_competitors, all_complementary)]
        sorted == SortDesc(scored, "area_score")
    IN  [super_category |-> super_category,
         complementary_categories |-> complementary_cats,
         isochrone_radius_km |-> isochrone_distance_km,
         recommendations |-> HeadRows(sorted, TopK),
         all_top_10 |-> sorted]

\* The tail of find_best_locations: normalize, score, sort, cut to three.
Ranking(super_category, complementary_cats, isochrone_distance_km, rs) ==
    LET all_competitors == [i \in DOMAIN rs |-> rs[i].competitors]
        all_complementary == [i \in DOMAIN rs |-> rs[i].complementary]
        scored == [i \in DOMAIN rs |-> Scored(rs[i], all_competitors, all_complementary)]
        sorted == SortDesc(scored, "composite_score")
    IN  [super_category |-> super_category,
         complementary_categories |-> complementary_cats,
         isochrone_radius_km |-> isochrone_distance_km,
         recommendations |-> HeadRows(sorted, TopK),
         all_top_10 |-> sorted]

ErrorResult(message) == [error |-> message, recommendations |-> <<>>]

-----------------------------------------------------------------------------
(***************************************************************************)
(* rank_areas: construction of the recommender and find_best_locations,    *)
(* one step per visit of a top-10 row (each visit asks the provider once). *)
(***************************************************************************)
\* A table in which every category lists itself first.
ComplementaryForWithItself(super_category) ==
    <<super_category>> \o DictGet(COMPLEMENTARY_CATEGORIES, super_category, <<>>)

ComplementaryFor(super_category) == DictGet(COMPLEMENTARY_CATEGORIES, super_category, <<>>)

\* LocationRecommender.__init__
Construct ==
    /\ pc = "new"
    /\ LET loaded == LoadAreaScores(csv)
       IN  IF loaded.kind = "raise"
           THEN /\ pc' = "done"
                /\ result' = loaded
                /\ UNCHANGED areas_df
           ELSE /\ pc' = "ready"
                /\ areas_df' = loaded.value
                /\ UNCHANGED result
    /\ UNCHANGED <<csv, area_with_centroid, delhi_area, points_super, request, cacheVars, quicksort, frame, top_10, idx,
                   results, provider, catchments, first>>

\* find_best_locations without the validation of the category.
BeginUnchecked ==
    /\ pc = "ready"
    /\ request.op = "rank_areas"
    /\ LET scored == calculate_area_scores(areas_df, request.super_category)
       IN  IF scored.kind = "raise"
           THEN /\ result' = scored
                /\ pc' = "done"
                /\ UNCHANGED top_10
           ELSE IF scored.value = <<>>
           THEN /\ result' = Return(ErrorResult("Could not calculate area scores"))
                /\ pc' = "done"
                /\ UNCHANGED top_10
           ELSE /\ top_10' = scored.value
                /\ pc' = "loop"
                /\ UNCHANGED result
    /\ idx' = 0
    /\ results' = <<>>
    /\ catchments' = <<>>
    /\ provider' = None
    /\ UNCHANGED <<csv, area_with_centroid, delhi_area, points_super, areas_df, request, cacheVars, quicksort, frame, first>>

\* find_best_locations with results kept on the recommender between calls.
BeginStale ==
    /\ pc = "ready"
    /\ request.op = "rank_areas"
    /\ LET scored == calculate_area_scores(areas_df, request.super_category)
       IN  IF request.super_category \notin VALID_SUPER_CATEGORIES
           THEN /\ result' = Return(ErrorResult("Invalid super category"))
                /\ pc' = "done"
                /\ UNCHANGED top_10
           ELSE IF scored.kind = "raise"
           THEN /\ result' = scored
                /\ pc' = "done"
                /\ UNCHANGED top_10
           ELSE IF scored.value = <<>>
           THEN /\ result' = Return(ErrorResult("Could not calculate area scores"))
                /\ pc' = "done"
                /\ UNCHANGED top_10
           ELSE /\ top_10' = scored.value
                /\ pc' = "loop"
                /\ UNCHANGED result
    /\ idx' = 0
    /\ catchments' = <<>>
    /\ provider' = None
    /\ UNCHANGED <<csv, area_with_centroid, delhi_area, points_super, areas_df, request, cacheVars, quicksort, frame, first,
                   results>>

\* find_best_locations up to the loop: validation, steps 1 to 3.
Begin ==
    /\ pc = "ready"
    /\ request.op = "rank_areas"
    /\ LET scored == calculate_area_scores(areas_df, request.super_category)
       IN  IF request.super_category \notin VALID_SUPER_CATEGORIES
           THEN /\ result' = Return(ErrorResult("Invalid super category"))
                /\ pc' = "done"
                /\ UNCHANGED top_10
           ELSE IF scored.kind = "raise"
           THEN /\ result' = scored
                /\ pc' = "done"
                /\ UNCHANGED top_10
           ELSE IF scored.value = <<>>
           THEN /\ result' = Return(ErrorResult("Could not calculate area scores"))
                /\ pc' = "done"
                /\ UNCHANGED top_10
           ELSE /\ top_10' = scored.value
                /\ pc' = "loop"
                /\ UNCHANGED result
    /\ idx' = 0
    /\ results' = <<>>
    /\ catchments' = <<>>
    /\ provider' = None
    /\ UNCHANGED <<csv, area_with_centroid, delhi_area, points_super, areas_df, request, cacheVars, quicksort, frame, first>>

\* Step 4 for the next row of top_10_df: the provider answers, the POIs are counted.
Visit ==
    /\ pc = "loop"
    /\ idx < Len(top_10)
    /\ idx' = idx + 1
    /\ LET row == top_10[idx + 1]
           centroid_map == get_area_centroids([i \in DOMAIN top_10 |-> top_10[i].area])
           centroid == CentroidOf(centroid_map, row.area)
           complementary_cats == ComplementaryFor(request.super_category)
       IN  IF centroid = None
           THEN UNCHANGED <<results, provider, catchments>>
           ELSE \E kind \in ProviderKinds :
                  LET answer == ProviderAnswer(kind, centroid.lat, centroid.lon,
                                               request.isochrone_distance_km)
                      polygon == get_isochrone_polygon(answer)
                      counts == IF polygon # None
                                THEN count_pois_in_polygon(polygon, request.super_category,
                                                           complementary_cats)
                                ELSE simple_radius_count(centroid.lat, centroid.lon,
                                                         request.isochrone_distance_km,
                                                         request.super_category,
                                                         complementary_cats)
                  IN  /\ provider' = [kind |-> kind, area |-> row.area]
                      /\ catchments' = Append(catchments,
                                              IF polygon # None THEN "isochrone" ELSE "radius")
                      /\ results' = Append(results,
                                           [area |-> row.area,
                                            area_score |-> row.area_score,
                                            centroid |-> [lat |-> centroid.lat,
                                                          lon |-> centroid.lon],
                                            competitors |-> counts[1],
                                            complementary |-> counts[2]])
    /\ UNCHANGED <<csv, area_with_centroid, delhi_area, points_super, areas_df, request, cacheVars, quicksort, frame, pc,
                   top_10, result, first>>

\* Steps 5 and 6 and the return.
Finish ==
    /\ pc = "loop"
    /\ idx = Len(top_10)
    /\ pc' = "done"
    /\ result' = IF results = <<>>
                 THEN Return(ErrorResult("No areas found"))
                 ELSE Return(Ranking(request.super_category,
                                     ComplementaryFor(request.super_category),
                                     request.isochrone_distance_km, results))
    /\ UNCHANGED <<csv, area_with_centroid, delhi_area, points_super, areas_df, request, cacheVars, quicksort, frame,
                   top_10, idx, results, provider, catchments, first>>

\* The caller repeats the call with the same arguments on the same recommender.
CallAgain ==
    /\ pc = "done"
    /\ request.op = "rank_areas"
    /\ first = None
    /\ areas_df # None
    /\ areas_df.kind = "DataFrame"
    /\ result.kind = "return"
    /\ first' = [result |-> result, catchments |-> catchments]
    /\ pc' = "ready"
    /\ result' = None
    /\ UNCHANGED <<csv, area_with_centroid, delhi_area, points_super, areas_df, request, cacheVars, quicksort, frame,
                   top_10, idx, results, provider, catchments>>

-----------------------------------------------------------------------------
(***************************************************************************)
(* The reference data the runs start from.                                 *)
(***************************************************************************)
\* Area names, in the order of the CSV rows; names are strings of characters.
AreaPool == << <<"B">>, <<"a", "b">>, <<"a">>, <<"b", "a">>, <<"a", "a">> >>

AreaName(i) == AreaPool[i]

\* Centroids lie ten kilometres apart on one parallel.
CentroidRow(i) == [name |-> AreaName(i), lon |-> 10 * i, lat |-> 0]

\* A row of the CSV with every criterion at 100, and one with mixed values.
FullProfile == [f \in Range(Criteria) |-> 100]

MixedProfile ==
    [f \in Range(Criteria) |->
        CASE f = "Score_Population_Density" -> 37
          [] f = "Score_Footfall" -> 100
          [] f = "Score_Transit" -> 0
          [] f = "Score_Traffic" -> 64
          [] f = "Score_Safety" -> 15
          [] OTHER -> 50]

Profiles == {FullProfile, MixedProfile}

CsvRows(n) == {[i \in 1..n |-> [name |-> AreaName(i), raw |-> prof[i]]] : prof \in [1..n -> Profiles]}

\* The areas that lack a centroid row: none, the first one, or all of them.
CentroidTables(n) ==
    {{CentroidRow(i) : i \in (1..n) \ missing} : missing \in {{}, (1..n) \cap {1}, 1..n}}

Poi(name, super_category, lon, lat) ==
    [name |-> name, super_category |-> super_category, lon |-> lon, lat |-> lat]

\* POIs around the first two centroids: at a centroid, and diagonal to one (inside its
\* one-kilometre box, outside its one-kilometre isochrone).
PoiPool ==
    { Poi(<<"p">>, "Food & Beverages", 10, 0),
      Poi(<<"q">>, "Food & Beverages", 11, 1),
      Poi(<<"p", "q">>, "Shopping & Retail", 11, -1),
      Poi(<<"q", "p">>, "Food & Beverages", 20, 0) }

PoiTables == {S \in SUBSET PoiPool : Cardinality(S) <= MaxPois}

Radii == {1, 2}

RankRequest(c, r) == [op |-> "rank_areas", super_category |-> c, isochrone_distance_km |-> r]

\* The loop variables before a call, and no call made yet.
Idle ==
    /\ areas_df = [kind |-> "unset"]
    /\ pc = "new"
    /\ top_10 = <<>>
    /\ idx = 0
    /\ results = <<>>
    /\ provider = None
    /\ catchments = <<>>
    /\ result = None
    /\ first = None
    /\ frame = None
    /\ cache_instance = [maxsize |-> 1, ttl |-> 1, links |-> <<>>]
    /\ clock = 0
    /\ thread = <<>>

\* Any CSV (missing, unreadable, or up to MaxAreas rows), with or without centroids,
\* asked about a few categories, one of them outside the enumeration.
InitVaried ==
    /\ \E n \in 0..MaxAreas :
          /\ csv \in {[status |-> "ok", rows |-> rows] : rows \in CsvRows(n)}
                       \cup (IF n = 0
                             THEN {[status |-> "missing"],
                                   [status |-> "unreadable", exception |-> "EmptyDataError"]}
                             ELSE {})
          /\ area_with_centroid \in CentroidTables(n)
    /\ points_super \in PoiTables
    /\ request \in {RankRequest(c, r) :
                       c \in {"Food & Beverages", "Other / Misc", "Pet Grooming"},
                       r \in Radii}

\* A full CSV with every centroid, asked about every category of the weight table.
InitEveryCategory ==
    /\ csv \in {[status |-> "ok", rows |-> rows] : rows \in CsvRows(MaxAreas)}
    /\ area_with_centroid = {CentroidRow(i) : i \in 1..MaxAreas}
    /\ points_super \in {S \in PoiTables : Cardinality(S) = MaxPois}
    /\ request \in {RankRequest(c, 1) : c \in VALID_SUPER_CATEGORIES}

InitRank ==
    /\ InitVaried \/ InitEveryCategory
    /\ delhi_area = {}
    /\ quicksort \in TieOrders
    /\ Idle

\* One CSV with every centroid, asked twice about one category.
InitTwice ==
    /\ csv = [status |-> "ok",
              rows |-> [i \in 1..MaxAreas |-> [name |-> AreaName(i), raw |-> MixedProfile]]]
    /\ area_with_centroid = {CentroidRow(i) : i \in 1..MaxAreas}
    /\ points_super \in PoiTables
    /\ request \in {RankRequest("Food & Beverages", r) : r \in Radii}
    /\ delhi_area = {}
    /\ quicksort \in TieOrders
    /\ Idle

NextRank == Construct \/ Begin \/ Visit \/ Finish

SpecRank == InitRank /\ [][NextRank]_vars

NextTwice == NextRank \/ CallAgain

SpecTwice == InitTwice /\ [][NextTwice]_vars

-----------------------------------------------------------------------------
(***************************************************************************)
(* area_business_analyzer.py: AreaBusinessAnalyzer.                        *)
(*                                                                         *)
(* A dict built from query rows is the sequence of its items in the order  *)
(* of the rows.  Where SQL leaves the order of rows open (GROUP BY without *)
(* ORDER BY, ties under ORDER BY, LIMIT 1 among several matches), every    *)
(* admissible order is a possible outcome.  Text fields of the result      *)
(* (reason, examples, cons, message, the trend's label and metrics) are    *)
(* left out.  A coordinate that is an average is kept as a numerator with  *)
(* the count as scale.                                                     *)
(***************************************************************************)
COMPLEMENTARY_MAP ==
    ( "Food & Beverages" :>
          <<"Shopping & Retail", "Entertainment & Leisure", "Fitness & Wellness">> @@
      "Shopping & Retail" :>
          <<"Food & Beverages", "Entertainment & Leisure", "Financial & Legal Services">> @@
      "Health & Medical" :>
          <<"Fitness & Wellness", "Food & Beverages", "Shopping & Retail">> @@
      "Education & Training" :>
          <<"Food & Beverages", "Shopping & Retail", "Transport & Auto Services">> @@
      "Fitness & Wellness" :>
          <<"Health & Medical", "Food & Beverages", "Shopping & Retail">> @@
      "Entertainment & Leisure" :>
          <<"Food & Beverages", "Shopping & Retail", "Transport & Auto Services">> @@
      "Accommodation & Lodging" :>
          <<"Food & Beverages", "Transport & Auto Services", "Entertainment & Leisure">> @@
      "Financial & Legal Services" :>
          <<"Shopping & Retail", "Food & Beverages", "Education & Training">> @@
      "Transport & Auto Services" :>
          <<"Food & Beverages", "Shopping & Retail", "Accommodation & Lodging">> @@
      "Parks & Outdoor Recreation" :>
          <<"Food & Beverages", "Fitness & Wellness", "Entertainment & Leisure">> @@
      "Religious & Spiritual Places" :>
          <<"Food & Beverages", "Shopping & Retail", "Accommodation & Lodging">> @@
      "Government & Public Services" :>
          <<"Food & Beverages", "Financial & Legal Services", "Shopping & Retail">> @@
      "Other / Misc" :>
          <<"Food & Beverages", "Shopping & Retail", "Entertainment & Leisure">> )

\* SQL LOWER and Python str.lower, str.title on strings of characters.
LowerChar(c) ==
    CASE c = "A" -> "a" [] c = "B" -> "b" [] c = "P" -> "p" [] c = "Q" -> "q" [] OTHER -> c

UpperChar(c) ==
    CASE c = "a" -> "A" [] c = "b" -> "B" [] c = "p" -> "P" [] c = "q" -> "Q" [] OTHER -> c

IsLetter(c) == LowerChar(c) # UpperChar(c)

Lower(str) == [i \in DOMAIN str |-> LowerChar(str[i])]

Title(str) ==
    [i \in DOMAIN str |->
        IF i = 1 \/ ~IsLetter(str[i - 1]) THEN UpperChar(str[i]) ELSE LowerChar(str[i])]

\* str LIKE pattern: % stands for any string, _ for any one character.
RECURSIVE Like(_, _)
Like(str, pattern) ==
    IF pattern = <<>> THEN str = <<>>
    ELSE IF Head(pattern) = "%"
         THEN Like(str, Tail(pattern)) \/ (str # <<>> /\ Like(Tail(str), pattern))
         ELSE /\ str # <<>>
              /\ (Head(pattern) = "_" \/ Head(pattern) = Head(str))
              /\ Like(Tail(str), Tail(pattern))

\* LOWER(name) LIKE LOWER('%' || text || '%')
LikeContains(name, text) == Like(Lower(name), <<"%">> \o Lower(text) \o <<"%">>)

\* The enumerations of a finite set, and those in descending order of a field.
Orders(S) ==
    {s \in [1..Cardinality(S) -> S] : \A i, j \in 1..Cardinality(S) : i # j => s[i] # s[j]}

OrdersDesc(S, key) == {s \in Orders(S) : \A i \in 1..(Len(s) - 1) : s[i][key] >= s[i + 1][key]}

\* find_area_by_name: the names it may return; none when nothing matches.
find_area_by_name(area_name) ==
    LET exact == {r.name : r \in {t \in area_with_centroid : Lower(t.name) = Lower(area_name)}}
        fuzzy == {r.name : r \in {t \in area_with_centroid : LikeContains(t.name, area_name)}}
    IN  IF exact # {} THEN exact
        ELSE {n \in fuzzy : \A m \in fuzzy : Len(n) <= Len(m)}

\* get_area_centroid
get_area_centroid(area_name) ==
    LET rows == {t \in area_with_centroid : Lower(t.name) = Lower(area_name)}
    IN  IF rows # {}
        THEN LET r == CHOOSE t \in rows : TRUE
             IN  [name |-> r.name, lon |-> r.lon, lat |-> r.lat, scale |-> 1]
        ELSE None

SumOver(S, key) == SumSeq([i \in 1..Cardinality(S) |-> (CHOOSE s \in Orders(S) : TRUE)[i][key]])

\* find_location_from_pois: the average position of the POIs whose name matches.
find_location_from_pois(location_name) ==
    LET rows == {p \in points_super : LikeContains(p.name, location_name)}
    IN  IF rows # {}
        THEN [name |-> Title(location_name),
              lon |-> SumOver(rows, "lon"), lat |-> SumOver(rows, "lat"),
              scale |-> Cardinality(rows),
              poi_count |-> Cardinality(rows), source |-> "poi"]
        ELSE None

\* SELECT super_category, COUNT(*) ... GROUP BY super_category over the given rows.
GroupCounts(rows) ==
    {[category |-> c, count |-> Cardinality({p \in rows : p.super_category = c})] :
        c \in {p.super_category : p \in rows}}

\* ST_DWithin(geom::geography, point::geography, metres), the radius in half kilometres.
DWithin(p, lat, lon, scale, radius_half_km) ==
    4 * ((p.lat * scale - lat) * (p.lat * scale - lat)
            + (p.lon * scale - lon) * (p.lon * scale - lon))
       <= radius_half_km * radius_half_km * scale * scale

\* get_category_distribution_by_radius: the dicts it may return.
get_category_distribution_by_radius(lat, lon, scale, radius_half_km) ==
    OrdersDesc(GroupCounts({p \in points_super : DWithin(p, lat, lon, scale, radius_half_km)}),
               "count")

\* The radius of get_category_distribution's fallback, 1.5 km, and of the POI
\* lookup of analyze_area, 1.0 km, in half kilometres.
AreaRadiusHalfKm == 3
PoiRadiusHalfKm == 2

\* get_category_distribution: the dicts it may return.
get_category_distribution(area_name) ==
    LET rows == {p \in points_super :
                    \E da \in delhi_area :
                       Lower(da.name) = Lower(area_name) /\ Contains(da.geom, p)}
        centroid == get_area_centroid(area_name)
    IN  IF rows = {}
        THEN IF centroid # None
             THEN get_category_distribution_by_radius(centroid.lat, centroid.lon, 1,
                                                      AreaRadiusHalfKm)
             ELSE {<<>>}
        ELSE OrdersDesc(GroupCounts(rows), "count")

\* get_delhi_average_distribution: the dicts it may return (each average the
\* fraction total/num_areas), or the ZeroDivisionError of dividing by no areas.
get_delhi_average_distribution ==
    LET num_areas == Cardinality(delhi_area)
    IN  IF points_super = {} THEN {Return(<<>>)}
        ELSE IF num_areas = 0 THEN {Raise("ZeroDivisionError")}
        ELSE {Return([i \in DOMAIN s |->
                         [category |-> s[i].category, total |-> s[i].count,
                          num_areas |-> num_areas]]) :
                 s \in Orders(GroupCounts(points_super))}

\* get_delhi_total_stats
get_delhi_total_stats ==
    [total_pois |-> Cardinality(points_super),
     num_areas |-> Cardinality(delhi_area),
     total_categories |-> Cardinality({p.super_category : p \in points_super})]

\* dict.get(category, 0) on a dict of counts
CountOf(distribution, category) ==
    IF \E i \in DOMAIN distribution : distribution[i].category = category
    THEN distribution[CHOOSE i \in DOMAIN distribution : distribution[i].category = category].count
    ELSE 0

\* sum(area_distribution.values())
TotalOf(distribution) == SumSeq([i \in DOMAIN distribution |-> distribution[i].count])

\* sum(area_distribution.get(c, 0) for c in categories)
CountOfAll(distribution, categories) ==
    SumSeq([i \in DOMAIN categories |-> CountOf(distribution, categories[i])])

\* Without the floor of the gap score at 0.
GapEntryUnfloored(avg, area_count) ==
    LET scaled == area_count * avg.num_areas
    IN  [category |-> avg.category,
         area_count |-> area_count,
         delhi_average |-> 10 * RoundDiv(avg.total * 10, avg.num_areas),
         gap_score |-> IF scaled >= avg.total
                       THEN 0 - 10 * RoundDiv((scaled - avg.total) * 1000, avg.total)
                       ELSE 10 * RoundDiv((avg.total - scaled) * 1000, avg.total),
         status |-> IF 2 * scaled < avg.total THEN "underserved"
                    ELSE IF scaled < avg.total THEN "moderate"
                    ELSE "saturated"]

\* One entry of analyze_gaps; gap_score and delhi_average are rounded to one
\* decimal (kept in hundredths).
GapEntry(avg, area_count) ==
    LET scaled == area_count * avg.num_areas
    IN  [category |-> avg.category,
         area_count |-> area_count,
         delhi_average |-> 10 * RoundDiv(avg.total * 10, avg.num_areas),
         gap_score |-> IF scaled >= avg.total THEN 0
                       ELSE 10 * RoundDiv((avg.total - scaled) * 1000, avg.total),
         status |-> IF 2 * scaled < avg.total THEN "underserved"
                    ELSE IF scaled < avg.total THEN "moderate"
                    ELSE "saturated"]

\* analyze_gaps
analyze_gaps(area_distribution, delhi_average) ==
    LET positive == SelectSeq(delhi_average, LAMBDA avg : avg.total > 0)
    IN  SortDesc([i \in DOMAIN positive |->
                     GapEntry(positive[i], CountOf(area_distribution, positive[i].category))],
                 "gap_score")

RECURSIVE Flatten(_)
Flatten(ss) == IF ss = <<>> THEN <<>> ELSE Head(ss) \o Flatten(Tail(ss))

\* Without the removal of duplicates.
UniqueByCategoryKeepAll(s, seen) == s

\* Keeps the first entry of each category.
RECURSIVE UniqueByCategory(_, _)
UniqueByCategory(s, seen) ==
    IF s = <<>> THEN <<>>
    ELSE IF Head(s).category \in seen THEN UniqueByCategory(Tail(s), seen)
    ELSE <<Head(s)>> \o UniqueByCategory(Tail(s), seen \cup {Head(s).category})

\* The cap on the complementary opportunities, and the cap on the merged recommendations.
MaxOpportunities == 5
MaxRecommendations == 5

\* The share of the area's POIs, in percent, above which a category is an anchor.
AnchorPercent == 5

\* analyze_complementary_opportunities
analyze_complementary_opportunities(area_distribution) ==
    LET total_pois == TotalOf(area_distribution)
        ForAnchor(item) ==
            IF item.count * 100 > AnchorPercent * total_pois
            THEN LET complementary == DictGet(COMPLEMENTARY_MAP, item.category, <<>>)
                     under == SelectSeq(complementary,
                                        LAMBDA c : 2 * CountOf(area_distribution, c) < item.count)
                 IN  [i \in DOMAIN under |->
                         [category |-> under[i],
                          anchor |-> item.category,
                          anchor_count |-> item.count,
                          existing_complementary |-> CountOf(area_distribution, under[i]),
                          opportunity_score |->
                              10 * RoundDiv((item.count - CountOf(area_distribution, under[i]))
                                               * 1000, item.count)]]
            ELSE <<>>
        opportunities == Flatten([i \in DOMAIN area_distribution |->
                                     ForAnchor(area_distribution[i])])
    IN  IF total_pois = 0 THEN <<>>
        ELSE HeadRows(UniqueByCategory(SortDesc(opportunities, "opportunity_score"), {}),
                      MaxOpportunities)

\* str.contains of a pattern without regular-expression operators
StrContains(str, text) ==
    \E i \in 0..(Len(str) - Len(text)) : SubSeq(str, i + 1, i + Len(text)) = text

\* get_area_base_score
get_area_base_score(df, area_name, super_category) ==
    IF df = None THEN None
    ELSE LET weights == DictGet(WEIGHTS, super_category, WEIGHTS["Other / Misc"])
             exact == SelectSeq(df.rows, LAMBDA row : Lower(row.name) = Lower(area_name))
             fuzzy == SelectSeq(df.rows, LAMBDA row : StrContains(Lower(row.name), Lower(area_name)))
             area_row == IF exact # <<>> THEN exact ELSE fuzzy
         IN  IF area_row = <<>> THEN None
             ELSE [kind |-> "float",
                   value |-> RoundDiv(WeightedSum(area_row[1], weights), 100)]


\* delhi_average.get(category, 0): the average as total and num_areas, None for 0.
AverageOf(delhi_average, category) ==
    IF \E i \in DOMAIN delhi_average : delhi_average[i].category = category
    THEN delhi_average[CHOOSE i \in DOMAIN delhi_average : delhi_average[i].category = category]
    ELSE None

\* calculate_area_trend: the indicator, by total_pois / avg_pois_per_area against 0.5 and 1.2.
calculate_area_trend(area_distribution, delhi_stats) ==
    LET total_pois == TotalOf(area_distribution)
        defined == delhi_stats.num_areas > 0 /\ delhi_stats.total_pois > 0
        scaled == total_pois * delhi_stats.num_areas
    IN  [indicator |->
            IF ~defined \/ 2 * scaled < delhi_stats.total_pois THEN "emerging"
            ELSE IF 5 * scaled < 6 * delhi_stats.total_pois THEN "growing"
            ELSE "saturated"]

\* The number of gaps that may become recommendations, and the length of gap_analysis.
TopGaps == 3
GapAnalysisLen == 5

\* The number of dominant categories reported.
TopDominant == 3

\* The entry analyze_area appends for a gap.
GapRecommendation(gap, rank, area_distribution, df, actual_area) ==
    LET complementary_count ==
            CountOfAll(area_distribution, DictGet(COMPLEMENTARY_MAP, gap.category, <<>>))
    IN  [rank |-> rank,
         category |-> gap.category,
         score |-> gap.gap_score,
         type |-> "gap",
         competitors |-> gap.area_count,
         complementary |-> complementary_count,
         base_score |-> get_area_base_score(df, actual_area, gap.category),
         opportunity_score |-> gap.gap_score,
         ecosystem_score |-> Min({10000, 200 * complementary_count})]

\* The entry analyze_area appends for a complementary opportunity.
ComplementaryRecommendation(comp, rank, area_distribution, delhi_average, df, actual_area) ==
    LET existing_count == comp.existing_complementary
        cat_delhi_avg == AverageOf(delhi_average, comp.category)
        complementary_count ==
            CountOfAll(area_distribution, DictGet(COMPLEMENTARY_CATEGORIES, comp.category, <<>>))
        left == IF cat_delhi_avg.total >= cat_delhi_avg.num_areas
                THEN [num |-> 100 * cat_delhi_avg.total
                                 - 50 * existing_count * cat_delhi_avg.num_areas,
                      den |-> cat_delhi_avg.total]
                ELSE [num |-> 100 - 50 * existing_count, den |-> 1]
    IN  [rank |-> rank,
         category |-> comp.category,
         score |-> comp.opportunity_score,
         type |-> "complementary",
         competitors |-> existing_count,
         complementary |-> complementary_count,
         base_score |-> get_area_base_score(df, actual_area, comp.category),
         opportunity_score |->
             IF cat_delhi_avg = None THEN 5000
             ELSE IF left.num <= 0 THEN 0 ELSE Round2(left),
         ecosystem_score |-> Min({10000, RoundDiv(complementary_count * 10000, 30)})]

\* The loop of analyze_area over gaps[:3].
RECURSIVE AddGaps(_, _, _, _, _)
AddGaps(gaps, top_recommendations, area_distribution, df, actual_area) ==
    IF gaps = <<>> THEN top_recommendations
    ELSE LET gap == Head(gaps)
             seen_categories == {r.category : r \in Range(top_recommendations)}
         IN  IF gap.category \notin seen_categories /\ gap.status \in {"underserved", "moderate"}
             THEN AddGaps(Tail(gaps),
                          Append(top_recommendations,
                                 GapRecommendation(gap, Len(top_recommendations) + 1,
                                                   area_distribution, df, actual_area)),
                          area_distribution, df, actual_area)
             ELSE AddGaps(Tail(gaps), top_recommendations, area_distribution, df, actual_area)

\* The loop over the complementary opportunities without the limit on the length.
RECURSIVE AddComplementaryUnlimited(_, _, _, _, _, _)
AddComplementaryUnlimited(complementary, top_recommendations, area_distribution, delhi_average, df, actual_area) ==
    IF complementary = <<>> THEN top_recommendations
    ELSE LET comp == Head(complementary)
             seen_categories == {r.category : r \in Range(top_recommendations)}
         IN  IF comp.category \notin seen_categories
             THEN AddComplementaryUnlimited(Tail(complementary),
                                   Append(top_recommendations,
                                          ComplementaryRecommendation(
                                              comp, Len(top_recommendations) + 1,
                                              area_distribution, delhi_average, df, actual_area)),
                                   area_distribution, delhi_average, df, actual_area)
             ELSE AddComplementaryUnlimited(Tail(complementary), top_recommendations,
                                            area_distribution, delhi_average, df, actual_area)

\* The loop of analyze_area over the complementary opportunities.
RECURSIVE AddComplementary(_, _, _, _, _, _)
AddComplementary(complementary, top_recommendations, area_distribution, delhi_average, df, actual_area) ==
    IF complementary = <<>> THEN top_recommendations
    ELSE LET comp == Head(complementary)
             seen_categories == {r.category : r \in Range(top_recommendations)}
         IN  IF comp.category \notin seen_categories
                /\ Len(top_recommendations) < MaxRecommendations
             THEN AddComplementary(Tail(complementary),
                                   Append(top_recommendations,
                                          ComplementaryRecommendation(
                                              comp, Len(top_recommendations) + 1,
                                              area_distribution, delhi_average, df, actual_area)),
                                   area_distribution, delhi_average, df, actual_area)
             ELSE AddComplementary(Tail(complementary), top_recommendations, area_distribution,
                                   delhi_average, df, actual_area)

\* The two failure results of analyze_area; the error is the message's template
\* and the name put into it.
NotFound(area_name) ==
    [success |-> FALSE,
     error |-> [template |-> "Could not find area or location '{}' in Delhi",
                name |-> area_name]]

\* The empty distribution reported as a name that was not found.
NoBusinessDataAsNotFound(actual_area) == NotFound(actual_area)

NoBusinessData(actual_area) ==
    [success |-> FALSE,
     error |-> [template |-> "No business data found for '{}'", name |-> actual_area]]

\* The success result of analyze_area, from the distribution and the city average.
Analysis(df, located, area_distribution, delhi_average) ==
    LET gaps == analyze_gaps(area_distribution, delhi_average)
        complementary == analyze_complementary_opportunities(area_distribution)
        from_gaps == AddGaps(HeadRows(gaps, TopGaps), <<>>, area_distribution, df,
                             located.actual_area)
        top_recommendations ==
            AddComplementary(complementary, from_gaps, area_distribution, delhi_average, df,
                             located.actual_area)
        dominant == HeadRows(SortDesc(area_distribution, "count"), TopDominant)
    IN  [success |-> TRUE,
         area |-> located.actual_area,
         centroid |-> located.centroid,
         location_source |-> located.location_source,
         radius_km |-> IF located.location_source = "poi"
                       THEN [kind |-> "float", value |-> 100]
                       ELSE None,
         total_pois |-> TotalOf(area_distribution),
         trend_indicator |-> calculate_area_trend(area_distribution, get_delhi_total_stats),
         dominant_categories |-> dominant,
         recommendations |-> top_recommendations,
         gap_analysis |-> HeadRows(gaps, GapAnalysisLen),
         complementary_opportunities |-> complementary]

\* The first part of analyze_area: what the name may resolve to, each with the
\* distributions the queries may return; none when it resolves to nothing.
Locate(area_name) ==
    LET names == find_area_by_name(area_name)
        poi_location == find_location_from_pois(area_name)
    IN  IF names # {}
        THEN {[actual_area |-> n,
               centroid |-> get_area_centroid(n),
               location_source |-> "area",
               distributions |-> get_category_distribution(n)] : n \in names}
        ELSE IF poi_location # None
        THEN {[actual_area |-> poi_location.name,
               centroid |-> [name |-> poi_location.name, lon |-> poi_location.lon,
                             lat |-> poi_location.lat, scale |-> poi_location.scale],
               location_source |-> "poi",
               distributions |->
                   get_category_distribution_by_radius(poi_location.lat, poi_location.lon,
                                                       poi_location.scale, PoiRadiusHalfKm)]}
        ELSE {}

Frame(located, area_distribution) ==
    [actual_area |-> located.actual_area,
     centroid |-> located.centroid,
     location_source |-> located.location_source,
     area_distribution |-> area_distribution]

\* analyze_area
AnalyzeArea ==
    /\ pc = "ready"
    /\ request.op = "analyze_area"
    /\ LET area_name == request.area_name
           found == Locate(area_name)
       IN  IF found = {}
           THEN /\ result' = Return(NotFound(area_name))
                /\ frame' = None
           ELSE \E located \in found :
                   \E area_distribution \in located.distributions :
                      /\ frame' = Frame(located, area_distribution)
                      /\ IF area_distribution = <<>>
                         THEN result' = Return(NoBusinessData(located.actual_area))
                         ELSE \E delhi_average \in get_delhi_average_distribution :
                                 result' =
                                     IF delhi_average.kind = "raise" THEN delhi_average
                                     ELSE Return(Analysis(areas_df, located, area_distribution,
                                                          delhi_average.value))
    /\ pc' = "done"
    /\ UNCHANGED <<csv, area_with_centroid, delhi_area, points_super, areas_df, request, cacheVars, quicksort,
                   top_10, idx, results, provider, catchments, first>>

\* The longest name asked about.
MaxNameLen == 2

\* The characters of the names asked about, LIKE's wildcards among them.
InputChars == {"a", "B", "q", "%", "_"}

InputNames == UNION {[1..n -> InputChars] : n \in 0..MaxNameLen}

\* The polygon of an area: the points within one kilometre of its centroid by road.
DelhiAreaRow(i) ==
    [name |-> AreaName(i),
     geom |-> [kind |-> "Polygon", lat |-> CentroidRow(i).lat, lon |-> CentroidRow(i).lon,
               reach |-> 1]]

AnalyzeRequest(name) == [op |-> "analyze_area", area_name |-> name]

\* Up to MaxAreas areas, with or without centroid rows, with or without polygons,
\* with or without the CSV, and any name asked about.
InitAnyName ==
    /\ \E n \in 0..MaxAreas :
          /\ area_with_centroid \in CentroidTables(n)
          /\ delhi_area \in {{}, {DelhiAreaRow(i) : i \in 1..n}}
          /\ csv \in {[status |-> "missing"],
                      [status |-> "ok",
                       rows |-> [i \in 1..n |-> [name |-> AreaName(i), raw |-> MixedProfile]]]}
    /\ points_super \in PoiTables
    /\ request \in {AnalyzeRequest(name) : name \in InputNames}

BusyCategories == <<"Food & Beverages", "Shopping & Retail", "Education & Training">>

PoiNames == << <<"p">>, <<"q">>, <<"p", "q">>, <<"q", "p">> >>

\* The POIs of a city where every busy category has here[i] POIs at the first
\* centroid and there[i] POIs at the second.
BusyPois(here, there) ==
    UNION {{Poi(PoiNames[k], BusyCategories[i], CentroidRow(1).lon, CentroidRow(1).lat) :
               k \in 1..here[i]}
             \cup {Poi(PoiNames[k], BusyCategories[i], CentroidRow(2).lon, CentroidRow(2).lat) :
                      k \in 1..there[i]} :
           i \in DOMAIN BusyCategories}

\* Two areas with centroids, polygons and CSV rows, POIs of several categories in
\* both, and the first area asked about.
InitBusy ==
    /\ area_with_centroid = {CentroidRow(1), CentroidRow(2)}
    /\ delhi_area = {DelhiAreaRow(1), DelhiAreaRow(2)}
    /\ csv = [status |-> "ok",
              rows |-> [i \in 1..2 |-> [name |-> AreaName(i), raw |-> MixedProfile]]]
    /\ points_super \in {BusyPois(here, there) :
                            here \in [DOMAIN BusyCategories -> 0..1],
                            there \in [DOMAIN BusyCategories -> 0..MaxPois]}
    /\ request = AnalyzeRequest(AreaName(1))

InitAnalyze ==
    /\ InitAnyName \/ InitBusy
    /\ quicksort = "kept"
    /\ Idle

NextAnalyze == Construct \/ AnalyzeArea

SpecAnalyze == InitAnalyze /\ [][NextAnalyze]_vars

-----------------------------------------------------------------------------
(***************************************************************************)
(* routes.py: the caching layer.                                           *)
(*                                                                         *)
(* A tier is a cachetools.TTLCache(maxsize, ttl): its entries in the order *)
(* they were stored, each with the time it expires.  Each operation of the *)
(* TTLCache is one step; maxsize and ttl are drawn from small numbers, the *)
(* four tiers of routes.py being instances with larger ones.  A key is the *)
(* JSON text make_cache_key hashes, the hash taken as injective.           *)
(***************************************************************************)
\* The largest maxsize and ttl of a tier, the last tick of the timer, and the
\* number of cached calls the request threads make between them.
MaxSize == 2
MaxTtl == 2
MaxTime == 3
MaxCalls == 3

\* make_cache_key(func.__name__, *args)
make_cache_key(name, args) == [args |-> <<name>> \o args, kwargs |-> <<>>]

TTLCache(maxsize, ttl) == [maxsize |-> maxsize, ttl |-> ttl, links |-> <<>>]

Expired(link, time) == link.expires <= time

\* TTLCache.expire
TTLCache_expire(links, time) == SelectSeq(links, LAMBDA link : ~Expired(link, time))

\* key in cache
TTLCache_contains(cache, key, time) ==
    \E i \in DOMAIN cache.links :
       cache.links[i].key = key /\ ~Expired(cache.links[i], time)

\* cache[key]: the value, or KeyError for a key that is missing or expired.
TTLCache_getitem(cache, key, time) ==
    IF TTLCache_contains(cache, key, time)
    THEN Return(cache.links[CHOOSE i \in DOMAIN cache.links : cache.links[i].key = key].value)
    ELSE Raise("KeyError")

\* Cache.popitem, repeated until one more entry fits: the oldest entries go.
Evict(links, maxsize) ==
    IF Len(links) < maxsize THEN links
    ELSE SubSeq(links, Len(links) - maxsize + 2, Len(links))

\* cache[key] = value, without the eviction of the oldest entries.
TTLCache_setitem_unbounded(cache, key, value, time) ==
    [cache EXCEPT !.links =
        Append(SelectSeq(TTLCache_expire(cache.links, time), LAMBDA link : link.key # key),
               [key |-> key, value |-> value, expires |-> time + cache.ttl])]

\* cache[key] = value: expired entries are dropped, then the oldest ones until
\* the new one fits; a key already held is stored anew, as the youngest.
TTLCache_setitem(cache, key, value, time) ==
    LET live == TTLCache_expire(cache.links, time)
        held == \E i \in DOMAIN live : live[i].key = key
        kept == IF held THEN SelectSeq(live, LAMBDA link : link.key # key)
                ELSE Evict(live, cache.maxsize)
    IN  [cache EXCEPT !.links =
            Append(kept, [key |-> key, value |-> value, expires |-> time + cache.ttl])]

\* len(cache)
TTLCache_len(cache, time) == Len(TTLCache_expire(cache.links, time))

\* cache_stats, for one tier
cache_stats(cache, time) == [size |-> TTLCache_len(cache, time), maxsize |-> cache.maxsize]

\* The cached operations called, with their arguments.
CachedCalls ==
    { [name |-> "_search_areas_cached", args |-> <<"a", 10>>],
      [name |-> "_search_areas_cached", args |-> <<"b", 10>>],
      [name |-> "_search_pois_cached", args |-> <<"a", 10>>] }

\* What the wrapped operation may do: return the rows the database holds for
\* its arguments at the time (they change with every tick), or raise; the
\* isochrone operation returns what LatLongClient.get_isochrone returns.
Outcomes(call, time) ==
    IF call.name = "_external_isochrone_cached"
    THEN {Return(MakeRequest(ProviderAnswer(kind, call.args[1], call.args[2], call.args[3]))) :
             kind \in ProviderKinds}
    ELSE {Return([name |-> call.name, args |-> call.args, content |-> time]),
          Raise("Exception")}

\* A request thread outside any cached call.
Waiting == [pc |-> "idle", calls |-> 0]

\* The number of calls made so far.
CallsMade == SumSeq([i \in 1..Cardinality(DOMAIN thread) |->
                        thread[(CHOOSE o \in Orders(DOMAIN thread) : TRUE)[i]].calls])

\* wrapper is entered: the key is made.
Call(t) ==
    /\ thread[t].pc \in {"idle", "done"}
    /\ CallsMade < MaxCalls
    /\ \E call \in CachedCalls :
          thread' = [thread EXCEPT ![t] =
                        [pc |-> "test", calls |-> thread[t].calls + 1, call |-> call,
                         key |-> make_cache_key(call.name, call.args),
                         before |-> cache_instance.links,
                         executed |-> FALSE]]
    /\ UNCHANGED <<cache_instance, clock, serviceVars>>

\* if key in cache_instance
Test(t) ==
    /\ thread[t].pc = "test"
    /\ LET key == thread[t].key
           found == TTLCache_contains(cache_instance, key, clock)
       IN  thread' = [thread EXCEPT ![t] =
                         [pc |-> IF found THEN "read" ELSE "compute"]
                            @@ [held |-> TTLCache_getitem(cache_instance, key, clock)]
                            @@ thread[t]]
    /\ UNCHANGED <<cache_instance, clock, serviceVars>>

\* return cache_instance[key]
Read(t) ==
    /\ thread[t].pc = "read"
    /\ thread' = [thread EXCEPT ![t] =
                     [pc |-> "done",
                      outcome |-> TTLCache_getitem(cache_instance, thread[t].key, clock)]
                        @@ thread[t]]
    /\ UNCHANGED <<cache_instance, clock, serviceVars>>

\* wrapper storing what the operation raised, as if it had returned it.
ComputeStoringRaised(t) ==
    /\ thread[t].pc = "compute"
    /\ \E computed \in Outcomes(thread[t].call, clock) :
          /\ thread' = [thread EXCEPT ![t] =
                           (IF computed.kind = "raise"
                            THEN [pc |-> "done", outcome |-> computed, executed |-> TRUE]
                            ELSE [pc |-> "store", result |-> computed.value,
                                  executed |-> TRUE])
                              @@ thread[t]]
          /\ cache_instance' =
                IF computed.kind = "raise"
                THEN TTLCache_setitem(cache_instance, thread[t].key, computed, clock)
                ELSE cache_instance
    /\ UNCHANGED <<clock, serviceVars>>

\* result = func(*args, **kwargs)
Compute(t) ==
    /\ thread[t].pc = "compute"
    /\ \E computed \in Outcomes(thread[t].call, clock) :
          thread' = [thread EXCEPT ![t] =
                        (IF computed.kind = "raise"
                         THEN [pc |-> "done", outcome |-> computed, executed |-> TRUE]
                         ELSE [pc |-> "store", result |-> computed.value, executed |-> TRUE])
                           @@ thread[t]]
    /\ UNCHANGED <<cache_instance, clock, serviceVars>>

\* cache_instance[key] = result; return result
Store(t) ==
    /\ thread[t].pc = "store"
    /\ cache_instance' = TTLCache_setitem(cache_instance, thread[t].key, thread[t].result, clock)
    /\ thread' = [thread EXCEPT ![t] =
                     [pc |-> "done", outcome |-> Return(thread[t].result),
                      after |-> cache_instance'.links, at |-> clock]
                        @@ thread[t]]
    /\ UNCHANGED <<clock, serviceVars>>

\* The timer advances.
Tick ==
    /\ clock < MaxTime
    /\ clock' = clock + 1
    /\ UNCHANGED <<cache_instance, thread, serviceVars>>

\* The request threads of the server's pool.
Threads == {"t1", "t2"}

\* The services are not called.
ServicesIdle ==
    /\ csv = [status |-> "missing"]
    /\ area_with_centroid = {}
    /\ delhi_area = {}
    /\ points_super = {}
    /\ request = None
    /\ areas_df = [kind |-> "unset"]
    /\ pc = "new"
    /\ top_10 = <<>>
    /\ idx = 0
    /\ results = <<>>
    /\ provider = None
    /\ catchments = <<>>
    /\ result = None
    /\ first = None
    /\ frame = None
    /\ quicksort = "kept"

\* An empty tier, and one request thread making its calls one after the other.
InitCache ==
    /\ cache_instance \in {TTLCache(maxsize, ttl) : maxsize \in 1..MaxSize, ttl \in 1..MaxTtl}
    /\ clock = 0
    /\ thread = [t \in {"t1"} |-> Waiting]
    /\ ServicesIdle

\* An empty tier, and the request threads calling concurrently.
InitThreads ==
    /\ cache_instance \in {TTLCache(maxsize, ttl) : maxsize \in 1..MaxSize, ttl \in 1..MaxTtl}
    /\ clock = 0
    /\ thread = [t \in Threads |-> Waiting]
    /\ ServicesIdle

NextCache ==
    \/ \E t \in DOMAIN thread : Call(t)
    \/ \E t \in DOMAIN thread : Test(t)
    \/ \E t \in DOMAIN thread : Read(t)
    \/ \E t \in DOMAIN thread : Compute(t)
    \/ \E t \in DOMAIN thread : Store(t)
    \/ Tick

SpecCache == InitCache /\ [][NextCache]_vars

SpecThreads == InitThreads /\ [][NextCache]_vars

-----------------------------------------------------------------------------
(***************************************************************************)
(* routes.py: two endpoints in front of cached operations.  A coordinate   *)
(* of a request is counted in tenths of the last decimal the endpoint      *)
(* keeps; a float is its sign and its digits, 0.0 and -0.0 being two       *)
(* floats that compare equal and print differently.                        *)
(***************************************************************************)
\* round(number, ndigits) of a number that is no tie.
round(number) == [negative |-> number < 0, digits |-> RoundDiv(Abs(number), 10)]

\* x == y on floats
FloatEq(x, y) == x.digits = y.digits /\ (x.negative = y.negative \/ x.digits = 0)

\* The viewports asked for: three south edges around 0 and two limits.
ViewportRequests ==
    {[min_lat |-> min_lat, min_lon |-> 6, max_lat |-> 14, max_lon |-> 14,
      limit |-> limit, buffer_frac |-> "0.05"] :
        min_lat \in {-4, 4, 6}, limit \in {100, 200}}

\* The isochrones asked for: three latitudes around 0.
IsochroneRequests ==
    {[lat |-> lat, lon |-> 6, distance |-> 1] : lat \in {-4, 4, 6}}

\* A call of wrapper with its key, as the endpoint enters it.
Entered(t, call) ==
    [pc |-> "test", calls |-> thread[t].calls + 1, call |-> call,
     key |-> make_cache_key(call.name, call.args),
     before |-> cache_instance.links,
     executed |-> FALSE]

\* get_points_viewport
GetPointsViewport(t) ==
    /\ thread[t].pc \in {"idle", "done"}
    /\ CallsMade < MaxCalls
    /\ \E r \in ViewportRequests :
          thread' = [thread EXCEPT ![t] =
                        Entered(t, [name |-> "_get_viewport_cached",
                                    args |-> <<round(r.min_lat), round(r.min_lon),
                                               round(r.max_lat), round(r.max_lon),
                                               r.limit, r.buffer_frac>>])]
    /\ UNCHANGED <<cache_instance, clock, serviceVars>>

\* get_external_isochrone
GetExternalIsochrone(t) ==
    /\ thread[t].pc \in {"idle", "done"}
    /\ CallsMade < MaxCalls
    /\ \E r \in IsochroneRequests :
          thread' = [thread EXCEPT ![t] =
                        Entered(t, [name |-> "_external_isochrone_cached",
                                    args |-> <<round(r.lat), round(r.lon), r.distance>>])]
    /\ UNCHANGED <<cache_instance, clock, serviceVars>>

NextRoutes ==
    \/ \E t \in DOMAIN thread : GetPointsViewport(t)
    \/ \E t \in DOMAIN thread : GetExternalIsochrone(t)
    \/ \E t \in DOMAIN thread : Test(t)
    \/ \E t \in DOMAIN thread : Read(t)
    \/ \E t \in DOMAIN thread : Compute(t)
    \/ \E t \in DOMAIN thread : Store(t)
    \/ Tick

SpecRoutes == InitCache /\ [][NextRoutes]_vars

-----------------------------------------------------------------------------
(***************************************************************************)
(* analyze_gaps called on its own, on counts and averages of two           *)
(* categories.                                                             *)
(***************************************************************************)
\* The largest count of a category in the area, and the largest city-wide total.
MaxCount == 3
MaxTotal == 3

GapCategories == <<"Food & Beverages", "Shopping & Retail">>

\* A dict of counts: a category without POIs has no key.
Distributions ==
    {SelectSeq([i \in DOMAIN GapCategories |-> [category |-> GapCategories[i], count |-> c[i]]],
               LAMBDA item : item.count > 0) :
        c \in [DOMAIN GapCategories -> 0..MaxCount]}

\* A dict of averages, each the fraction total/num_areas.
Averages ==
    {[i \in DOMAIN GapCategories |->
         [category |-> GapCategories[i], total |-> tot[i], num_areas |-> n]] :
        tot \in [DOMAIN GapCategories -> 0..MaxTotal], n \in 1..MaxAreas}

GapsRequest(area_distribution, delhi_average) ==
    [op |-> "analyze_gaps", area_distribution |-> area_distribution,
     delhi_average |-> delhi_average]

InitGaps ==
    /\ request \in {GapsRequest(d, a) : d \in Distributions, a \in Averages}
    /\ csv = [status |-> "missing"]
    /\ area_with_centroid = {}
    /\ delhi_area = {}
    /\ points_super = {}
    /\ areas_df = None
    /\ pc = "ready"
    /\ top_10 = <<>>
    /\ idx = 0
    /\ results = <<>>
    /\ provider = None
    /\ catchments = <<>>
    /\ result = None
    /\ first = None
    /\ frame = None
    /\ cache_instance = TTLCache(1, 1)
    /\ clock = 0
    /\ thread = <<>>
    /\ quicksort = "kept"

\* analyze_gaps
AnalyzeGaps ==
    /\ pc = "ready"
    /\ request.op = "analyze_gaps"
    /\ result' = Return(analyze_gaps(request.area_distribution, request.delhi_average))
    /\ pc' = "done"
    /\ UNCHANGED <<csv, area_with_centroid, delhi_area, points_super, areas_df, request,
                   cacheVars, quicksort, top_10, idx, results, provider, catchments, first, frame>>

NextGaps == AnalyzeGaps

SpecGaps == InitGaps /\ [][NextGaps]_vars

-----------------------------------------------------------------------------
(***************************************************************************)
(* AnalysisService.cluster_competitors.  The locations lie on one meridian, *)
(* lat counted in km of arc, so that the great-circle distance of two of    *)
(* them is the difference of their lat; eps_km is counted in half km.       *)
(***************************************************************************)
MaxLocations == 5
MaxLat == 2
MaxEps == 3
MaxSamples == 3

\* The haversine metric, in half km.
haversine(p, q) == 2 * Abs(p[1] - q[1])

\* radius_neighbors of DBSCAN: the samples at most eps away, the sample included.
Neighborhood(coords, eps, i) ==
    {j \in DOMAIN coords : haversine(coords[i], coords[j]) <= eps}

\* Counting the neighbours of a sample without the sample itself.
IsCoreWithoutSelf(coords, eps, min_samples, i) ==
    Cardinality(Neighborhood(coords, eps, i) \ {i}) >= min_samples

IsCore(coords, eps, min_samples, i) ==
    Cardinality(Neighborhood(coords, eps, i)) >= min_samples

\* A cluster that stays with the sample that starts it.
ExpandNoFurther(coords, eps, min_samples, members, unlabelled) == members

\* The unlabelled samples a cluster grows to from its members: the neighbours of
\* its core samples, and so on.
RECURSIVE Expand(_, _, _, _, _)
Expand(coords, eps, min_samples, members, unlabelled) ==
    LET more == {j \in unlabelled \ members :
                    \E i \in members : /\ IsCore(coords, eps, min_samples, i)
                                       /\ j \in Neighborhood(coords, eps, i)}
    IN  IF more = {} THEN members
        ELSE Expand(coords, eps, min_samples, members \cup more, unlabelled)

\* The labelling loop of DBSCAN: every unlabelled core sample, in index order,
\* starts the next cluster; -1 stays on the samples no cluster reaches.
RECURSIVE Label(_, _, _, _, _, _)
Label(coords, eps, min_samples, i, label_num, labels) ==
    IF i > Len(coords) THEN labels
    ELSE IF labels[i] # -1 \/ ~IsCore(coords, eps, min_samples, i)
         THEN Label(coords, eps, min_samples, i + 1, label_num, labels)
         ELSE LET members == Expand(coords, eps, min_samples, {i},
                                    {j \in DOMAIN labels : labels[j] = -1})
              IN  Label(coords, eps, min_samples, i + 1, label_num + 1,
                        [j \in DOMAIN labels |->
                            IF j \in members THEN label_num ELSE labels[j]])

\* DBSCAN(eps, min_samples, metric='haversine').fit(coords).labels_; fit rejects
\* an empty array, an eps that is not positive and a min_samples below 1.
DBSCAN(coords, eps, min_samples) ==
    IF Len(coords) = 0 \/ eps <= 0 \/ min_samples < 1
    THEN Raise("ValueError")
    ELSE Return(Label(coords, eps, min_samples, 1, 0, [i \in DOMAIN coords |-> -1]))

\* The points of the samples labelled label, in the order of the input.
PointsLabelled(locations, labels, label) ==
    LET RECURSIVE From(_)
        From(i) == IF i > Len(locations) THEN <<>>
                   ELSE IF labels[i] = label THEN <<locations[i]>> \o From(i + 1)
                   ELSE From(i + 1)
    IN  From(1)

\* The labels of the clusters in the order the loop over labels meets them.
LabelsInOrder(labels) ==
    LET RECURSIVE From(_, _)
        From(i, seen) ==
            IF i > Len(labels) THEN <<>>
            ELSE IF labels[i] = -1 \/ labels[i] \in seen THEN From(i + 1, seen)
            ELSE <<labels[i]>> \o From(i + 1, seen \cup {labels[i]})
    IN  From(1, {})

\* np.mean(points, axis=0), kept as the sums of lat and lon over the count.
Mean(points) ==
    [num |-> <<SumSeq([i \in DOMAIN points |-> points[i][1]]),
               SumSeq([i \in DOMAIN points |-> points[i][2]])>>,
     den |-> Len(points)]

ClusterSummary(locations, labels, label) ==
    LET points == PointsLabelled(locations, labels, label)
    IN  [cluster_id |-> label, centroid |-> Mean(points), count |-> Len(points),
         points |-> points]

\* Without the early return on an empty list.
cluster_competitors_unguarded(locations, eps_km, min_samples) ==
    LET db == DBSCAN(locations, eps_km, min_samples)
    IN  IF db.kind = "raise" THEN db
        ELSE LET order == LabelsInOrder(db.value)
             IN  Return([clusters |-> [k \in DOMAIN order |->
                                          ClusterSummary(locations, db.value, order[k])],
                         noise |-> PointsLabelled(locations, db.value, -1)])

\* cluster_competitors
cluster_competitors(locations, eps_km, min_samples) ==
    IF locations = <<>> THEN Return([clusters |-> <<>>, noise |-> <<>>])
    ELSE LET db == DBSCAN(locations, eps_km, min_samples)
         IN  IF db.kind = "raise" THEN db
             ELSE LET order == LabelsInOrder(db.value)
                  IN  Return([clusters |-> [k \in DOMAIN order |->
                                               ClusterSummary(locations, db.value, order[k])],
                              noise |-> PointsLabelled(locations, db.value, -1)])

\* Lists of up to MaxLocations [lat, lon] pairs.
Locations ==
    UNION {[1..n -> {<<lat, 0>> : lat \in 0..MaxLat}] : n \in 0..MaxLocations}

ClusterRequest(locations, eps_km, min_samples) ==
    [op |-> "cluster_competitors", locations |-> locations, eps_km |-> eps_km,
     min_samples |-> min_samples]

InitCluster ==
    /\ request \in {ClusterRequest(l, e, m) :
                       l \in Locations, e \in 0..MaxEps, m \in 0..MaxSamples}
    /\ csv = [status |-> "missing"]
    /\ area_with_centroid = {}
    /\ delhi_area = {}
    /\ points_super = {}
    /\ areas_df = None
    /\ pc = "ready"
    /\ top_10 = <<>>
    /\ idx = 0
    /\ results = <<>>
    /\ provider = None
    /\ catchments = <<>>
    /\ result = None
    /\ first = None
    /\ frame = None
    /\ cache_instance = TTLCache(1, 1)
    /\ clock = 0
    /\ thread = <<>>
    /\ quicksort = "kept"

\* cluster_competitors
ClusterCompetitors ==
    /\ pc = "ready"
    /\ request.op = "cluster_competitors"
    /\ result' = cluster_competitors(request.locations, request.eps_km, request.min_samples)
    /\ pc' = "done"
    /\ UNCHANGED <<csv, area_with_centroid, delhi_area, points_super, areas_df, request,
                   cacheVars, quicksort, top_10, idx, results, provider, catchments, first, frame>>

NextCluster == ClusterCompetitors

SpecCluster == InitCluster /\ [][NextCluster]_vars

-----------------------------------------------------------------------------
(***************************************************************************)
(* calculate_area_scores called on its own, on a CSV of more rows than the  *)
(* ten it returns.                                                          *)
(***************************************************************************)
MaxRows == 11

\* The name of the i-th row: i letters.
RowName(i) == [k \in 1..i |-> "a"]

ScoresRequest(super_category) ==
    [op |-> "calculate_area_scores", super_category |-> super_category]

InitScores ==
    /\ \E n \in 0..MaxRows :
          csv \in {[status |-> "ok",
                    rows |-> [i \in 1..n |-> [name |-> RowName(i), raw |-> prof[i]]]] :
                       prof \in [1..n -> Profiles]}
                    \cup (IF n = 0 THEN {[status |-> "missing"]} ELSE {})
    /\ request = ScoresRequest("Food & Beverages")
    /\ area_with_centroid = {}
    /\ delhi_area = {}
    /\ points_super = {}
    /\ quicksort \in TieOrders
    /\ Idle

\* calculate_area_scores
CalculateAreaScores ==
    /\ pc = "ready"
    /\ request.op = "calculate_area_scores"
    /\ result' = calculate_area_scores(areas_df, request.super_category)
    /\ pc' = "done"
    /\ UNCHANGED <<csv, area_with_centroid, delhi_area, points_super, areas_df, request,
                   cacheVars, quicksort, top_10, idx, results, provider, catchments, first,
                   frame>>

NextScores == Construct \/ CalculateAreaScores

SpecScores == InitScores /\ [][NextScores]_vars

-----------------------------------------------------------------------------
(***************************************************************************)
(* analyze_complementary_opportunities called on its own, on counts of     *)
(* five categories: two that list each other and three that no category    *)
(* lists.                                                                  *)
(***************************************************************************)
OpportunityCategories ==
    <<"Food & Beverages", "Shopping & Retail", "Parks & Outdoor Recreation",
      "Religious & Spiritual Places", "Government & Public Services">>

\* A count large enough for a category with nearly half as many POIs to score
\* 50.0 after rounding: 100 - 100 * 500 / 1001 = 50.04995...
LargeCount == 1001

OpportunityCounts == (0..MaxCount) \cup {LargeCount \div 2, LargeCount}

\* A dict of counts: a category without POIs has no key.
OpportunityDistributions ==
    {SelectSeq([i \in DOMAIN OpportunityCategories |->
                   [category |-> OpportunityCategories[i], count |-> c[i]]],
               LAMBDA item : item.count > 0) :
        c \in [DOMAIN OpportunityCategories -> OpportunityCounts]}

OpportunitiesRequest(area_distribution) ==
    [op |-> "analyze_complementary_opportunities", area_distribution |-> area_distribution]

InitOpportunities ==
    /\ request \in {OpportunitiesRequest(d) : d \in OpportunityDistributions}
    /\ csv = [status |-> "missing"]
    /\ area_with_centroid = {}
    /\ delhi_area = {}
    /\ points_super = {}
    /\ areas_df = None
    /\ pc = "ready"
    /\ top_10 = <<>>
    /\ idx = 0
    /\ results = <<>>
    /\ provider = None
    /\ catchments = <<>>
    /\ result = None
    /\ first = None
    /\ frame = None
    /\ cache_instance = TTLCache(1, 1)
    /\ clock = 0
    /\ thread = <<>>
    /\ quicksort = "kept"

\* analyze_complementary_opportunities
AnalyzeComplementaryOpportunities ==
    /\ pc = "ready"
    /\ request.op = "analyze_complementary_opportunities"
    /\ result' = Return(analyze_complementary_opportunities(request.area_distribution))
    /\ pc' = "done"
    /\ UNCHANGED <<csv, area_with_centroid, delhi_area, points_super, areas_df, request,
                   cacheVars, quicksort, top_10, idx, results, provider, catchments, first, frame>>

NextOpportunities == AnalyzeComplementaryOpportunities

SpecOpportunities == InitOpportunities /\ [][NextOpportunities]_vars

-----------------------------------------------------------------------------
(***************************************************************************)
(* Steps 5 and 6 of find_best_locations on their own: the state at the end  *)
(* of the loop over the top-10 rows, for areas with up to MaxCount           *)
(* competitors and complementary businesses each.                           *)
(***************************************************************************)
MaxCandidates == 3

\* competitors[i] POIs of the category and complementary[i] POIs of one of its
\* complementary categories at the centroid of the i-th area.
CountedPois(competitors, complementary) ==
    UNION {{Poi(PoiNames[k], "Food & Beverages", CentroidRow(i).lon, CentroidRow(i).lat) :
               k \in 1..competitors[i]}
             \cup {Poi(PoiNames[k], "Shopping & Retail", CentroidRow(i).lon, CentroidRow(i).lat) :
                      k \in 1..complementary[i]} :
           i \in DOMAIN competitors}

\* Every area visited, the provider having timed out at each visit.
InitNormalize ==
    /\ \E n \in 1..MaxCandidates :
          /\ csv = [status |-> "ok",
                    rows |-> [i \in 1..n |-> [name |-> AreaName(i), raw |-> MixedProfile]]]
          /\ area_with_centroid = {CentroidRow(i) : i \in 1..n}
          /\ points_super \in {CountedPois(competitors, complementary) :
                                  competitors \in [1..n -> 0..MaxCount],
                                  complementary \in [1..n -> 0..MaxCount]}
    /\ request = RankRequest("Food & Beverages", 1)
    /\ delhi_area = {}
    /\ quicksort = "kept"
    /\ areas_df = LoadAreaScores(csv).value
    /\ top_10 = calculate_area_scores(areas_df, request.super_category).value
    /\ idx = Len(top_10)
    /\ results = [i \in DOMAIN top_10 |->
                     LET centroid == CentroidRow(i)
                         counts == simple_radius_count(centroid.lat, centroid.lon,
                                                       request.isochrone_distance_km,
                                                       request.super_category,
                                                       ComplementaryFor(request.super_category))
                     IN  [area |-> top_10[i].area, area_score |-> top_10[i].area_score,
                          centroid |-> [lat |-> centroid.lat, lon |-> centroid.lon],
                          competitors |-> counts[1], complementary |-> counts[2]]]
    /\ provider = [kind |-> "timeout", area |-> top_10[Len(top_10)].area]
    /\ catchments = [i \in DOMAIN top_10 |-> "radius"]
    /\ pc = "loop"
    /\ result = None
    /\ first = None
    /\ frame = None
    /\ cache_instance = TTLCache(1, 1)
    /\ clock = 0
    /\ thread = <<>>

NextNormalize == Finish

SpecNormalize == InitNormalize /\ [][NextNormalize]_vars

-----------------------------------------------------------------------------
(***************************************************************************)
(* Properties of rank_areas.                                               *)
(***************************************************************************)
Returned == pc = "done" /\ result.kind = "return"

\* The call returned a ranking (a result without an error field).
Ranked == Returned /\ "error" \notin DOMAIN result.value

IsSortedDesc(s, key) == \A i \in 1..(Len(s) - 1) : s[i][key] >= s[i + 1][key]

IsPrefix(p, s) == Len(p) <= Len(s) /\ p = SubSeq(s, 1, Len(p))

\* Whether the area has a row in area_with_centroid.
HasCentroid(name) == \E r \in area_with_centroid : r.name = name

\* C1: in every non-error result of rank_areas, all_top_10 is ordered by
\* non-increasing composite_score, and recommendations is a prefix of it.
C1_SortedByComposite ==
    Ranked =>
        /\ IsSortedDesc(result.value.all_top_10, "composite_score")
        /\ IsPrefix(result.value.recommendations, result.value.all_top_10)
        /\ IsSortedDesc(result.value.recommendations, "composite_score")

\* A ranking whose order is not the order of the visits: sorting moved a candidate
\* with a lower area_score above one with a higher area_score.
C1_Witness ==
    /\ Ranked
    /\ Len(result.value.all_top_10) >= 2
    /\ \E i \in 1..(Len(result.value.all_top_10) - 1) :
          /\ result.value.all_top_10[i].composite_score
                > result.value.all_top_10[i + 1].composite_score
          /\ result.value.all_top_10[i].area_score
                < result.value.all_top_10[i + 1].area_score

InScale(x) == 0 <= x /\ x <= 10000

\* C2: every candidate of a ranking has area_score, opportunity_score,
\* ecosystem_score and composite_score within 0 and 100 (raw criterion values
\* being within 0 and 100), for every category of the weight table.
C2_ScoresInScale ==
    Ranked =>
        \A i \in DOMAIN result.value.all_top_10 :
            LET r == result.value.all_top_10[i]
            IN  /\ InScale(r.area_score)
                /\ InScale(r.opportunity_score)
                /\ InScale(r.ecosystem_score)
                /\ InScale(r.composite_score)

\* A ranking for the category whose weights sum to 100, with a candidate at the top
\* of the area and ecosystem scales, and one whose counts differ from the others by two.
C2_Witness ==
    /\ Ranked
    /\ request.super_category = "Parks & Outdoor Recreation"
    /\ \E i \in DOMAIN result.value.all_top_10 :
          /\ result.value.all_top_10[i].area_score = 10000
          /\ result.value.all_top_10[i].ecosystem_score = 10000
          /\ result.value.all_top_10[i].complementary >= 2

\* The POIs of the given categories inside the square of half-side radius_km around
\* the centroid.
InSquare(p, centroid, radius_km) ==
    /\ Abs(p.lat - centroid.lat) <= radius_km
    /\ Abs(p.lon - centroid.lon) <= radius_km

SquareCount(categories, centroid, radius_km) ==
    Cardinality({p \in points_super :
                    p.super_category \in categories /\ InSquare(p, centroid, radius_km)})

\* C3: when the provider fails for a candidate (timeout, HTTP error, non-success
\* status, no geometry, malformed geometry), the candidate is counted over the
\* radius square around its centroid, and the call returns a ranking, with these
\* counts, and no error.
C3_ProviderFailureFallsBack ==
    /\ (provider # None /\ provider.kind \in ProviderFailures) =>
          /\ results # <<>>
          /\ results[Len(results)].area = provider.area
          /\ catchments[Len(catchments)] = "radius"
    /\ \A i \in DOMAIN results :
          catchments[i] = "radius" =>
             /\ results[i].competitors =
                   SquareCount({request.super_category}, results[i].centroid,
                               request.isochrone_distance_km)
             /\ results[i].complementary =
                   SquareCount(Range(ComplementaryFor(request.super_category)),
                               results[i].centroid, request.isochrone_distance_km)
    /\ (pc = "done" /\ results # <<>>) =>
          /\ Ranked
          /\ \A i \in DOMAIN results :
                \E j \in DOMAIN result.value.all_top_10 :
                   /\ result.value.all_top_10[j].area = results[i].area
                   /\ result.value.all_top_10[j].competitors = results[i].competitors
                   /\ result.value.all_top_10[j].complementary = results[i].complementary

\* A finished call in which the provider timed out for the last candidate, whose
\* square holds a competitor that its isochrone does not.
C3_Witness ==
    /\ Ranked
    /\ provider # None
    /\ provider.kind = "timeout"
    /\ LET r == results[Len(results)]
       IN  r.competitors >
              count_pois_in_polygon([kind |-> "Polygon", lat |-> r.centroid.lat,
                                     lon |-> r.centroid.lon,
                                     reach |-> request.isochrone_distance_km],
                                    request.super_category,
                                    ComplementaryFor(request.super_category))[1]

\* The call was made on a loaded dataset in which some area has a centroid.
Rankable ==
    /\ areas_df # None
    /\ areas_df.kind = "DataFrame"
    /\ \E i \in DOMAIN areas_df.rows : HasCentroid(areas_df.rows[i].name)

AllEqual(s, key) == \A i, j \in DOMAIN s : s[i][key] = s[j][key]

\* C5: when all ranked candidates have the same competitor count, every
\* opportunity_score is exactly 50.0; when all have the same complementary
\* count, every ecosystem_score is exactly 50.0; a single candidate included.
C5_EqualCountsScoreFifty ==
    Ranked =>
        /\ AllEqual(result.value.all_top_10, "competitors") =>
              \A i \in DOMAIN result.value.all_top_10 :
                 result.value.all_top_10[i].opportunity_score = 5000
        /\ AllEqual(result.value.all_top_10, "complementary") =>
              \A i \in DOMAIN result.value.all_top_10 :
                 result.value.all_top_10[i].ecosystem_score = 5000

\* Two ranked candidates with one competitor each.
C5_Witness ==
    /\ Ranked
    /\ Len(result.value.all_top_10) = 2
    /\ \A i \in DOMAIN result.value.all_top_10 :
          /\ result.value.all_top_10[i].competitors = 1
          /\ result.value.all_top_10[i].opportunity_score = 5000

\* C7 as stated: the second of two calls with the same arguments on an unchanged
\* dataset returns what the first returned, whatever the provider did in either.
C7_SameOutputTwice ==
    (pc = "done" /\ first # None) => result = first.result

\* C7 amended: the second call returns what the first returned when, besides the
\* dataset, the provider's answer for each candidate (a polygon, or a failure)
\* is the same in both calls.
C7_SameOutputSameProvider ==
    (pc = "done" /\ first # None /\ catchments = first.catchments) => result = first.result

\* Two finished calls with the same mix of polygons and failures, the counts of
\* some candidate depending on which of the two it got.
C7_Witness ==
    /\ pc = "done"
    /\ first # None
    /\ catchments = first.catchments
    /\ "radius" \in Range(catchments)
    /\ "isochrone" \in Range(catchments)
    /\ Ranked
    /\ \E i \in DOMAIN results :
          results[i].competitors #
             SquareCount({request.super_category}, results[i].centroid,
                         request.isochrone_distance_km)

\* C10 as stated: with the CSV missing, unreadable or without rows, rank_areas
\* returns an error result with an empty recommendations list and raises nothing.
C10_DataUnavailableReported ==
    (pc = "done" /\ (csv.status # "ok" \/ csv.rows = <<>>)) =>
        /\ Returned
        /\ "error" \in DOMAIN result.value
        /\ result.value.recommendations = <<>>

-----------------------------------------------------------------------------
(***************************************************************************)
(* Properties of analyze_area.                                             *)
(***************************************************************************)
\* analyze_area was called and has returned or raised.
Analyzed == pc = "done" /\ request.op = "analyze_area" /\ areas_df # [kind |-> "unset"]

\* C6: no step of the scoring raises a division error, whatever the denominators
\* (no defined areas, a city-wide average of 0, an area without POIs, equal counts).
C6_NoDivisionError ==
    pc = "done" => ~(result.kind = "raise" /\ result.exception = "ZeroDivisionError")

\* The name is, ignoring case, no area's name, no part of an area's name and no
\* part of a POI's name.
MatchesNothing(area_name) ==
    /\ \A r \in area_with_centroid :
          /\ Lower(r.name) # Lower(area_name)
          /\ ~StrContains(Lower(r.name), Lower(area_name))
    /\ \A p \in points_super : ~StrContains(Lower(p.name), Lower(area_name))

\* C8: analyze_area on a name that matches no area, exactly or as a substring, and
\* no POI name returns the failure result with the not-found error and nothing else
\* (stated where areas are defined, so that the city-wide averages exist).
C8_UnmatchedNameNotFound ==
    (Analyzed /\ delhi_area # {} /\ MatchesNothing(request.area_name)) =>
        result = Return(NotFound(request.area_name))

\* No POI lies where the distribution of the located place is counted: in the
\* area's polygon or, failing that, within 1.5 km of its centroid; within 1 km of
\* the averaged position for a place located through POI names.
NothingAround(located) ==
    IF located.location_source = "poi"
    THEN \A p \in points_super :
            ~DWithin(p, located.centroid.lat, located.centroid.lon, located.centroid.scale,
                     PoiRadiusHalfKm)
    ELSE /\ \A p \in points_super :
               \A da \in delhi_area :
                  Lower(da.name) = Lower(located.actual_area) => ~Contains(da.geom, p)
         /\ located.centroid # None =>
               \A p \in points_super :
                  ~DWithin(p, located.centroid.lat, located.centroid.lon, 1, AreaRadiusHalfKm)

\* C9: when the name resolves, as an area or through the POI names, and no POI is
\* counted for the place, analyze_area returns a failure result whose error is not
\* the not-found error, and no recommendations.
C9_EmptyDistributionReported ==
    (Analyzed /\ frame # None /\ NothingAround(frame)) =>
        /\ result.kind = "return"
        /\ result.value.success = FALSE
        /\ result.value.error.template # NotFound(request.area_name).error.template
        /\ result.value.error.name = frame.actual_area
        /\ "recommendations" \notin DOMAIN result.value

\* C9 witness: a name found among the POI names whose averaged position has no POI
\* within the radius, and the failure returned for it.
C9_Witness ==
    /\ Analyzed
    /\ frame # None
    /\ frame.location_source = "poi"
    /\ NothingAround(frame)
    /\ points_super # {}
    /\ result = Return(NoBusinessData(frame.actual_area))

-----------------------------------------------------------------------------
(***************************************************************************)
(* Properties of the caching layer.                                        *)
(***************************************************************************)
\* The calls that have returned or raised.
Finished == {t \in DOMAIN thread : thread[t].pc = "done"}

\* The tier with the entries it held at some moment.
CacheWith(links) == [cache_instance EXCEPT !.links = links]

\* C11: a call executes the wrapped operation exactly when the cache holds no
\* unexpired entry for its key, and otherwise returns the stored value; after a
\* call that executed the operation successfully the cache holds the result.
C11_ReadThrough ==
    \A t \in Finished :
       /\ thread[t].executed <=> thread[t].held.kind = "raise"
       /\ thread[t].held.kind = "return" => thread[t].outcome = thread[t].held
       /\ (thread[t].executed /\ thread[t].outcome.kind = "return") =>
             TTLCache_getitem(CacheWith(thread[t].after), thread[t].key, thread[t].at)
                = thread[t].outcome

\* C12: when the wrapped operation raises on a miss, the caller gets that error,
\* the cache is as it was before the call and holds no entry for the key, so
\* that a call with the same arguments finds none.
C12_ErrorNotCached ==
    \A t \in Finished :
       (thread[t].executed /\ thread[t].outcome.kind = "raise") =>
          /\ thread[t].outcome = Raise("Exception")
          /\ cache_instance.links = thread[t].before
          /\ ~TTLCache_contains(cache_instance, thread[t].key, clock)

\* C12 witness: the operation raised while the cache held another key's entry.
C12_Witness ==
    \E t \in Finished :
       /\ thread[t].outcome = Raise("Exception")
       /\ thread[t].before # <<>>
       /\ cache_instance.links = thread[t].before

\* C13: with request threads interleaving on one tier, every call returns the
\* operation's result for its own arguments, or raises what the operation
\* raised; none fails because of the interleaving (stated before any entry can
\* have expired).
C13_RacesOnlyRecompute ==
    clock = 0 =>
       \A t \in Finished :
          /\ thread[t].outcome.kind = "return" =>
                /\ thread[t].outcome.value.name = thread[t].call.name
                /\ thread[t].outcome.value.args = thread[t].call.args
          /\ thread[t].outcome.kind = "raise" => thread[t].outcome = Raise("Exception")

\* C14: the size cache introspection reports never exceeds the tier's maxsize.
C14_SizeWithinCapacity ==
    /\ cache_stats(cache_instance, clock).size <= cache_stats(cache_instance, clock).maxsize
    /\ Len(cache_instance.links) <= cache_instance.maxsize

\* C14 witness: a full tier after a store that evicted an unexpired entry.
C14_Witness ==
    /\ cache_stats(cache_instance, clock).size = cache_instance.maxsize
    /\ \E t \in Finished :
          /\ thread[t].executed
          /\ thread[t].outcome.kind = "return"
          /\ \E i \in DOMAIN thread[t].before :
                /\ ~Expired(thread[t].before[i], thread[t].at)
                /\ \A j \in DOMAIN thread[t].after :
                      thread[t].after[j].key # thread[t].before[i].key

-----------------------------------------------------------------------------
(***************************************************************************)
(* Properties of analyze_gaps.                                             *)
(***************************************************************************)
\* The entries of the averages with an average above 0, and the gap of one.
PositiveAverages == {avg \in Range(request.delhi_average) : avg.total > 0}

GapOf(avg) == CHOOSE gap \in Range(result.value) : gap.category = avg.category

\* The status the ratio area_count / average calls for.
StatusFor(area_count, avg) ==
    IF 2 * area_count * avg.num_areas < avg.total THEN "underserved"
    ELSE IF area_count * avg.num_areas < avg.total THEN "moderate"
    ELSE "saturated"

\* 100 - 100 * area_count / average, floored at 0, times the average's total.
GapTimesTotal(area_count, avg) ==
    Max({0, 100 * (avg.total - area_count * avg.num_areas)})

GapsAnalyzed == pc = "done" /\ request.op = "analyze_gaps"

\* C15 as stated: for every category with an average above 0, gap_score is
\* exactly max(0, 100 - 100 * a / avg), lies in [0, 100], and the status follows
\* the ratio; a = 0 gives 100.0 and 'underserved'.
C15_GapScoreExact ==
    GapsAnalyzed =>
       \A avg \in PositiveAverages :
          LET a == CountOf(request.area_distribution, avg.category)
              gap == GapOf(avg)
          IN  /\ gap.gap_score * avg.total = 100 * GapTimesTotal(a, avg)
              /\ InScale(gap.gap_score)
              /\ gap.status = StatusFor(a, avg)
              /\ a = 0 => (gap.gap_score = 10000 /\ gap.status = "underserved")

\* C15 amended: gap_score is max(0, 100 - 100 * a / avg) rounded to one decimal
\* (a multiple of 0.1 at most 0.05 from it), lies in [0, 100], and the status
\* follows the unrounded ratio; a = 0 gives 100.0 and 'underserved'.
C15_GapScoreRounded ==
    GapsAnalyzed =>
       /\ \A avg \in PositiveAverages :
             \E gap \in Range(result.value) : gap.category = avg.category
       /\ \A avg \in PositiveAverages :
             LET a == CountOf(request.area_distribution, avg.category)
                 gap == GapOf(avg)
             IN  /\ gap.gap_score % 10 = 0
                 /\ Abs(gap.gap_score * avg.total - 100 * GapTimesTotal(a, avg)) <= 5 * avg.total
                 /\ InScale(gap.gap_score)
                 /\ gap.area_count = a
                 /\ gap.status = StatusFor(a, avg)
                 /\ a = 0 => (gap.gap_score = 10000 /\ gap.status = "underserved")

\* C15 witness: a gap score that had to be rounded, one floored at 0, and none
\* for an average of 0.
C15_Witness ==
    /\ GapsAnalyzed
    /\ \E avg \in PositiveAverages :
          /\ GapOf(avg).gap_score * avg.total
                # 100 * GapTimesTotal(GapOf(avg).area_count, avg)
          /\ GapOf(avg).status = "moderate"
    /\ \E avg \in PositiveAverages :
          /\ GapOf(avg).area_count * avg.num_areas > avg.total
          /\ GapOf(avg).gap_score = 0

-----------------------------------------------------------------------------
(***************************************************************************)
(* Properties of cluster_competitors.                                      *)
(***************************************************************************)
Clustered == pc = "done" /\ request.op = "cluster_competitors"

\* C16: on an empty list of locations, whatever eps_km and min_samples are,
\* cluster_competitors returns empty clusters and empty noise and does not raise.
C16_EmptyInputEmptyOutput ==
    (Clustered /\ request.locations = <<>>) =>
       /\ result.kind = "return"
       /\ result.value.clusters = <<>>
       /\ result.value.noise = <<>>

\* C16 witness: an empty list clustered with an eps_km and a min_samples that fit
\* would reject.
C16_Witness ==
    /\ Clustered
    /\ request.locations = <<>>
    /\ request.eps_km = 0
    /\ request.min_samples = 0
    /\ result = Return([clusters |-> <<>>, noise |-> <<>>])

\* The locations closer than eps_km to location i, i among them, and the points
\* of a set of locations in the order of the input.
GroupOf(i) ==
    {j \in DOMAIN request.locations :
        j = i \/ haversine(request.locations[i], request.locations[j]) < request.eps_km}

Groups == {GroupOf(i) : i \in DOMAIN request.locations}

Members(group) ==
    LET RECURSIVE From(_)
        From(i) == IF i > Len(request.locations) THEN <<>>
                   ELSE IF i \in group THEN <<request.locations[i]>> \o From(i + 1)
                   ELSE From(i + 1)
    IN  From(1)

\* The input is made of groups and isolated points: no two locations are exactly
\* eps_km apart, being closer than eps_km is transitive (all pairs inside a group
\* closer, all pairs across groups farther), and a group of two or more has at
\* least min_samples points.
GroupedInput ==
    LET n == DOMAIN request.locations
        d(i, j) == haversine(request.locations[i], request.locations[j])
    IN  /\ \A i, j \in n : i # j => d(i, j) # request.eps_km
        /\ \A i, j \in n : j \in GroupOf(i) => GroupOf(j) = GroupOf(i)
        /\ \A g \in Groups : Cardinality(g) = 1 \/ Cardinality(g) >= request.min_samples

ClusterPoints == {c.points : c \in Range(result.value.clusters)}

-----------------------------------------------------------------------------
(***************************************************************************)
(* Properties of the composite score and of the weight table.              *)
(***************************************************************************)
\* 0.60 * area_score + 0.20 * opportunity_score + 0.20 * ecosystem_score of the
\* reported sub-scores of a candidate, times 100.
WeightedSubScores(c) ==
    60 * c.area_score + 20 * c.opportunity_score + 20 * c.ecosystem_score

\* C18: the composite_score of every ranked candidate is 0.60 * area_score +
\* 0.20 * opportunity_score + 0.20 * ecosystem_score of its own reported
\* sub-scores, rounded to two decimals (the hundredth nearest to it).
C18_CompositeFromSubScores ==
    Ranked =>
       \A c \in Range(result.value.all_top_10) \cup Range(result.value.recommendations) :
          2 * Abs(100 * c.composite_score - WeightedSubScores(c)) <= 100

\* C18 witness: a ranked candidate whose three sub-scores differ, none of them 0,
\* and whose weighted sum had to be rounded.
C18_Witness ==
    /\ Ranked
    /\ \E c \in Range(result.value.recommendations) :
          /\ c.opportunity_score > 0
          /\ c.ecosystem_score > 0
          /\ c.area_score # c.opportunity_score
          /\ c.opportunity_score # c.ecosystem_score
          /\ WeightedSubScores(c) % 100 # 0

\* The sum of the weights of a category, in hundredths.
WeightTotal(super_category) ==
    SumSeq([i \in DOMAIN WEIGHTS[super_category] |-> WEIGHTS[super_category][i].weight])

\* The candidate's area has every criterion at 100 in the CSV.
AllCriteriaFull(c) ==
    \A i \in DOMAIN csv.rows :
       csv.rows[i].name = c.area => csv.rows[i].raw = FullProfile

\* C19: for each of the 13 categories, the sum of its weights is at most 100, and
\* an area whose every criterion is 100 gets that sum as its area_score.
C19_FullAreaScoresWeightTotal ==
    /\ \A category \in VALID_SUPER_CATEGORIES : WeightTotal(category) <= 10000
    /\ (Ranked /\ request.super_category \in VALID_SUPER_CATEGORIES) =>
          \A c \in Range(result.value.all_top_10) :
             AllCriteriaFull(c) => c.area_score = WeightTotal(request.super_category)

\* C19 witness: areas with every criterion at 100 ranked for the category whose
\* weights add up to 100 and for a category whose weights add up to less.
C19_Witness ==
    /\ Ranked
    /\ request.super_category = "Parks & Outdoor Recreation"
    /\ \E c \in Range(result.value.all_top_10) : AllCriteriaFull(c) /\ c.area_score = 10000
    /\ \E c \in Range(result.value.all_top_10) : ~AllCriteriaFull(c) /\ c.area_score < 10000

-----------------------------------------------------------------------------
(***************************************************************************)
(* Properties of the merged recommendations of analyze_area.               *)
(***************************************************************************)
Succeeded == Analyzed /\ result.kind = "return" /\ result.value.success

\* C20: in every successful result of analyze_area the recommendations are at most
\* 5, no two of them share a category, every one of type 'gap' comes from a gap
\* whose status is 'underserved' or 'moderate', and the ranks are 1..n in the
\* order of the list.
C20_MergedRecommendations ==
    Succeeded =>
       LET recs == result.value.recommendations
       IN  /\ Len(recs) <= 5
           /\ \A i, j \in DOMAIN recs : recs[i].category = recs[j].category => i = j
           /\ \A i \in DOMAIN recs :
                 recs[i].type = "gap" =>
                    \E gap \in Range(result.value.gap_analysis) :
                       /\ gap.category = recs[i].category
                       /\ gap.gap_score = recs[i].score
                       /\ gap.status \in {"underserved", "moderate"}
           /\ \A i \in DOMAIN recs : recs[i].rank = i

\* C20 witness: 5 recommendations, of both types, while a further complementary
\* opportunity was left out.
C20_Witness ==
    /\ Succeeded
    /\ Len(result.value.recommendations) = 5
    /\ \E r \in Range(result.value.recommendations) : r.type = "gap"
    /\ \E r \in Range(result.value.recommendations) : r.type = "complementary"
    /\ \E comp \in Range(result.value.complementary_opportunities) :
          \A r \in Range(result.value.recommendations) : r.category # comp.category

-----------------------------------------------------------------------------
(***************************************************************************)
(* Properties of calculate_area_scores.                                    *)
(***************************************************************************)
ScoresReturned ==
    pc = "done" /\ request.op = "calculate_area_scores" /\ result.kind = "return"

\* The row of the dataset a returned area comes from, and the score of a row.
RowOf(name) == CHOOSE i \in DOMAIN areas_df.rows : areas_df.rows[i].name = name

RowScore(i) ==
    AreaScoreRow(areas_df.rows[i], WeightsFor(request.super_category)).area_score

\* C22: calculate_area_scores returns at most 10 areas in non-increasing order of
\* area_score, they are the highest-scoring ones of the dataset, and areas of
\* equal area_score are in dataset order, the earlier ones making the cut.
C22_TopTenStable ==
    (ScoresReturned /\ areas_df # None) =>
       LET top == result.value
           rows == DOMAIN areas_df.rows
           kept == {RowOf(top[k].area) : k \in DOMAIN top}
       IN  /\ Len(top) = Min({TopN, Len(areas_df.rows)})
           /\ \A k \in DOMAIN top : top[k].area_score = RowScore(RowOf(top[k].area))
           /\ \A k, l \in DOMAIN top : k < l => top[k].area_score >= top[l].area_score
           /\ \A i \in kept : \A j \in rows \ kept : RowScore(i) >= RowScore(j)
           /\ \A k, l \in DOMAIN top :
                 (k < l /\ top[k].area_score = top[l].area_score) =>
                    RowOf(top[k].area) < RowOf(top[l].area)
           /\ \A i \in kept : \A j \in rows \ kept : RowScore(i) = RowScore(j) => i < j

-----------------------------------------------------------------------------
(***************************************************************************)
(* Properties of the order of ties in a ranking.                           *)
(***************************************************************************)
\* The code point of a character, and Python's order of two strings.
Ord(c) ==
    CASE c = "B" -> 66 [] c = "P" -> 80 [] c = "Q" -> 81
      [] c = "a" -> 97 [] c = "b" -> 98 [] c = "p" -> 112 [] c = "q" -> 113
      [] OTHER -> 0

RECURSIVE StrLessEq(_, _)
StrLessEq(x, y) ==
    IF x = <<>> THEN TRUE
    ELSE IF y = <<>> THEN FALSE
    ELSE IF Head(x) = Head(y) THEN StrLessEq(Tail(x), Tail(y))
    ELSE Ord(Head(x)) < Ord(Head(y))

\* C23: in the ranking of rank_areas, candidates of equal composite_score are in
\* descending order of area_score, and candidates equal in both are in
\* alphabetical order of their area names.
C23_TiesByAreaScoreThenName ==
    Ranked =>
       LET all == result.value.all_top_10
       IN  \A i, j \in DOMAIN all :
              (i < j /\ all[i].composite_score = all[j].composite_score) =>
                 /\ all[i].area_score >= all[j].area_score
                 /\ all[i].area_score = all[j].area_score =>
                       StrLessEq(all[i].area, all[j].area)

-----------------------------------------------------------------------------
(***************************************************************************)
(* Properties of the normalization.                                        *)
(***************************************************************************)
\* The counts of one kind over the candidates of the ranking.
CountsOf(key) == {c[key] : c \in Range(result.value.all_top_10)}

Spread(key) == Max(CountsOf(key)) - Min(CountsOf(key))

\* C21 as stated: when the competitor counts are not all equal, opportunity_score
\* is exactly 100 minus the min-max normalized competitor count (100 for the
\* fewest competitors, 0 for the most, fewer competitors never scoring lower),
\* and ecosystem_score is exactly the normalized complementary count.
C21_NormalizedExactly ==
    Ranked =>
       LET all == Range(result.value.all_top_10)
       IN  /\ Spread("competitors") > 0 =>
                 /\ \A c \in all :
                       c.opportunity_score * Spread("competitors")
                          = 10000 * Spread("competitors")
                               - 10000 * (c.competitors - Min(CountsOf("competitors")))
                 /\ \A a, b \in all :
                       a.competitors < b.competitors =>
                          a.opportunity_score >= b.opportunity_score
           /\ Spread("complementary") > 0 =>
                 \A c \in all :
                    c.ecosystem_score * Spread("complementary")
                       = 10000 * (c.complementary - Min(CountsOf("complementary")))

\* C21 amended: the same with both scores rounded to two decimals (the hundredth
\* nearest to the normalized value).
C21_NormalizedAndRounded ==
    Ranked =>
       LET all == Range(result.value.all_top_10)
       IN  /\ Spread("competitors") > 0 =>
                 /\ \A c \in all :
                       2 * Abs(c.opportunity_score * Spread("competitors")
                                 - 10000 * (Max(CountsOf("competitors")) - c.competitors))
                          <= Spread("competitors")
                 /\ \A c \in all :
                       /\ c.competitors = Min(CountsOf("competitors"))
                             => c.opportunity_score = 10000
                       /\ c.competitors = Max(CountsOf("competitors"))
                             => c.opportunity_score = 0
                 /\ \A a, b \in all :
                       a.competitors < b.competitors =>
                          a.opportunity_score >= b.opportunity_score
           /\ Spread("complementary") > 0 =>
                 \A c \in all :
                    2 * Abs(c.ecosystem_score * Spread("complementary")
                              - 10000 * (c.complementary - Min(CountsOf("complementary"))))
                       <= Spread("complementary")

\* C21 witness: three candidates with 0, 1 and 3 competitors, the middle one
\* scoring 66.67.
C21_Witness ==
    /\ Ranked
    /\ CountsOf("competitors") = {0, 1, 3}
    /\ \E c \in Range(result.value.all_top_10) :
          c.competitors = 1 /\ c.opportunity_score = 6667
    /\ Spread("complementary") > 0

-----------------------------------------------------------------------------
(***************************************************************************)
(* Properties of analyze_complementary_opportunities.                      *)
(***************************************************************************)
OpportunitiesAnalyzed ==
    pc = "done" /\ request.op = "analyze_complementary_opportunities" /\ Returned

\* The counts of the anchors that justify category c: categories holding more
\* than 5% of the POIs, listing c, with more than twice as many POIs as c.
AnchorCounts(distribution, c) ==
    {item.count : item \in
        {item \in Range(distribution) :
            /\ item.count * 100 > 5 * TotalOf(distribution)
            /\ item.category \in DOMAIN COMPLEMENTARY_MAP
            /\ c \in Range(COMPLEMENTARY_MAP[item.category])
            /\ 2 * CountOf(distribution, c) < item.count}}

\* What every version of C24 says of the list besides the value of the score:
\* every entry is justified by an anchor, no category twice, scores
\* non-increasing, at most 5 entries, nothing for an area without POIs.
OpportunitiesJustified ==
    LET d == request.area_distribution
        out == result.value
    IN  /\ \A i \in DOMAIN out : AnchorCounts(d, out[i].category) # {}
        /\ \A i, j \in DOMAIN out : out[i].category = out[j].category => i = j
        /\ \A i, j \in DOMAIN out : i < j => out[i].opportunity_score >= out[j].opportunity_score
        /\ Len(out) <= 5
        /\ TotalOf(d) = 0 => out = <<>>

\* C24 as stated: every entry is justified by an anchor and its score is exactly
\* 100 - 100 * count(C) / count(A) for the best anchor A, above 50 and at most
\* 100; no category twice, scores non-increasing, at most 5 entries, and an
\* empty list for an area without POIs.
C24_OpportunityScoreExact ==
    OpportunitiesAnalyzed =>
       /\ OpportunitiesJustified
       /\ \A e \in Range(result.value) :
             LET a == Max(AnchorCounts(request.area_distribution, e.category))
                 c == CountOf(request.area_distribution, e.category)
             IN  /\ e.opportunity_score * a = 10000 * (a - c)
                 /\ e.opportunity_score > 5000
                 /\ e.opportunity_score <= 10000

\* C24 amended: the score is that value rounded to one decimal, at least 50
\* and at most 100.
C24_OpportunityScoreRounded ==
    OpportunitiesAnalyzed =>
       /\ OpportunitiesJustified
       /\ \A e \in Range(result.value) :
             LET a == Max(AnchorCounts(request.area_distribution, e.category))
                 c == CountOf(request.area_distribution, e.category)
             IN  /\ e.opportunity_score % 10 = 0
                 /\ 2 * Abs((e.opportunity_score \div 10) * a - 1000 * (a - c)) <= a
                 /\ e.opportunity_score >= 5000
                 /\ e.opportunity_score <= 10000

\* C24 witness: five opportunities, one of them for a category with 1 POI
\* against an anchor with 3, scoring 66.7.
C24_Witness ==
    /\ OpportunitiesAnalyzed
    /\ Len(result.value) = 5
    /\ \E e \in Range(result.value) :
          /\ e.opportunity_score = 6670
          /\ e.existing_complementary = 1
          /\ Max(AnchorCounts(request.area_distribution, e.category)) = 3

-----------------------------------------------------------------------------
(***************************************************************************)
(* Properties of the resolution of a name by analyze_area.                 *)
(***************************************************************************)
\* The area names equal to the input ignoring case, and those containing it.
ExactAreas(area_name) ==
    {r.name : r \in {t \in area_with_centroid : Lower(t.name) = Lower(area_name)}}

ContainingAreas(area_name) ==
    {r.name : r \in {t \in area_with_centroid : StrContains(Lower(t.name), Lower(area_name))}}

\* C25: analyze_area resolves a name in a fixed order: an area whose name equals
\* the input ignoring case wins; otherwise the shortest area whose name contains
\* the input as a substring; the POI names are used only when neither exists, and
\* location_source is 'poi' exactly when they resolved it.
C25_ResolutionOrder ==
    (Analyzed /\ frame # None) =>
        LET area_name == request.area_name
            exact == ExactAreas(area_name)
            containing == ContainingAreas(area_name)
        IN  /\ exact # {} =>
                  frame.location_source = "area" /\ frame.actual_area \in exact
            /\ (exact = {} /\ containing # {}) =>
                  /\ frame.location_source = "area"
                  /\ frame.actual_area \in containing
                  /\ \A m \in containing : Len(frame.actual_area) <= Len(m)
            /\ (exact = {} /\ containing = {}) =>
                  /\ frame.location_source = "poi"
                  /\ frame.actual_area = Title(area_name)
            /\ frame.location_source \in {"area", "poi"}

-----------------------------------------------------------------------------
(***************************************************************************)
(* Properties of the noise and the clusters of cluster_competitors.        *)
(***************************************************************************)
\* Location i has at least min_samples locations, itself included, within eps_km.
CorePoint(i) ==
    Cardinality({j \in DOMAIN request.locations :
                    haversine(request.locations[i], request.locations[j]) <= request.eps_km})
       >= request.min_samples

\* Location i lies within eps_km of a core point.
NearCore(i) ==
    \E j \in DOMAIN request.locations :
       /\ CorePoint(j)
       /\ haversine(request.locations[i], request.locations[j]) <= request.eps_km

\* The ids of the clusters that hold the point.
ClustersOf(point) ==
    {c.cluster_id : c \in {d \in Range(result.value.clusters) : point \in Range(d.points)}}

\* C26: in the output of cluster_competitors a point is noise exactly when it is
\* not a core point and lies within eps_km of no core point; every core point
\* belongs to a cluster, and two core points within eps_km of each other belong
\* to the same cluster.
C26_NoiseAndCore ==
    (Clustered /\ result.kind = "return") =>
       LET locations == request.locations
       IN  /\ \A i \in DOMAIN locations :
                 locations[i] \in Range(result.value.noise) <=> (~CorePoint(i) /\ ~NearCore(i))
           /\ \A i \in DOMAIN locations :
                 locations[i] \in Range(result.value.noise) <=> ClustersOf(locations[i]) = {}
           /\ \A i \in DOMAIN locations : CorePoint(i) => ClustersOf(locations[i]) # {}
           /\ \A i, j \in DOMAIN locations :
                 (/\ CorePoint(i)
                  /\ CorePoint(j)
                  /\ haversine(locations[i], locations[j]) <= request.eps_km)
                    => /\ ClustersOf(locations[i]) = ClustersOf(locations[j])
                       /\ Cardinality(ClustersOf(locations[i])) = 1

\* C26 witness: a core point and, in its cluster, a point that is no core point
\* but lies within eps_km of it.
C26_Witness ==
    /\ Clustered
    /\ result.kind = "return"
    /\ result.value.noise = <<>>
    /\ \E i, j \in DOMAIN request.locations :
          /\ CorePoint(i)
          /\ ~CorePoint(j)
          /\ haversine(request.locations[i], request.locations[j]) <= request.eps_km
          /\ ClustersOf(request.locations[j]) = ClustersOf(request.locations[i])
          /\ ClustersOf(request.locations[j]) # {}

-----------------------------------------------------------------------------
(***************************************************************************)
(* Properties of the keys of the cached operations.                        *)
(***************************************************************************)
\* Two calls of _get_viewport_cached with equal rounded bounds, limit and
\* buffer_frac.
SameViewport(a, b) ==
    /\ \A i \in 1..4 : FloatEq(a[i], b[i])
    /\ a[5] = b[5]
    /\ a[6] = b[6]

\* The viewport calls that have got past the membership test of wrapper, and
\* the entries of viewport calls the tier held when call t began.
ViewportTested ==
    {t \in DOMAIN thread : /\ thread[t].pc \in {"read", "compute", "store", "done"}
                           /\ thread[t].call.name = "_get_viewport_cached"}

EntriesBefore(t) == {link \in Range(thread[t].before) : "name" \in DOMAIN link.value}

\* C27: two viewport requests whose rounded bounds, limit and buffer_frac are
\* equal have one key, and the second, the entry of the first staying unexpired,
\* is served from it; calls that differ in the operation or in a normalized
\* argument have different keys, and no call returns the entry of another.
C27_KeysOfNormalizedArguments ==
    \A t \in ViewportTested :
       /\ \A link \in EntriesBefore(t) :
             IF SameViewport(link.value.args, thread[t].call.args)
             THEN /\ link.key = thread[t].key
                  /\ (~Expired(link, clock) /\ thread[t].pc = "done") =>
                        thread[t].outcome = Return(link.value)
             ELSE link.key # thread[t].key
       /\ \A link \in Range(thread[t].before) \ EntriesBefore(t) : link.key # thread[t].key
       /\ (thread[t].pc = "done" /\ thread[t].outcome.kind = "return") =>
             /\ thread[t].outcome.value.name = thread[t].call.name
             /\ SameViewport(thread[t].outcome.value.args, thread[t].call.args)

\* The part of C27 that holds: keys differ exactly when the operation, the sign
\* or digits of a rounded bound, the limit or the buffer_frac differ.
KeysOfEqualTexts ==
    \A t \in ViewportTested :
       \A link \in EntriesBefore(t) :
          link.key = thread[t].key <=> link.value.args = thread[t].call.args

-----------------------------------------------------------------------------
(***************************************************************************)
(* Properties of the areas without a centroid.                             *)
(***************************************************************************)
\* The top-10 areas that have a row in area_with_centroid.
Located == {i \in DOMAIN top_10 : \E c \in area_with_centroid : c.name = top_10[i].area}

-----------------------------------------------------------------------------
(***************************************************************************)
(* Properties of a failure of the provider inside a cached operation.      *)
(***************************************************************************)
\* The finished calls of the cached isochrone operation.
IsochroneFinished ==
    {t \in Finished : thread[t].call.name = "_external_isochrone_cached"}

\* The error value of a failed request.
IsErrorValue(value) == "status" \in DOMAIN value /\ value.status = "error"

\* C29: a failed request to the provider inside the cached isochrone operation
\* is returned as an error value, not raised, and stored; a later call with the
\* same rounded arguments that finds the stored error value unexpired returns it
\* without asking the provider again.
C29_ProviderFailureCached ==
    \A t \in IsochroneFinished :
       /\ thread[t].executed =>
             /\ thread[t].outcome.kind = "return"
             /\ TTLCache_getitem(CacheWith(thread[t].after), thread[t].key, thread[t].at)
                   = thread[t].outcome
       /\ (thread[t].held.kind = "return" /\ IsErrorValue(thread[t].held.value)) =>
             /\ thread[t].outcome = thread[t].held
             /\ ~thread[t].executed

\* Apart from a read after the entry has expired, C29 holds.
StoredFailureServed ==
    \A t \in IsochroneFinished :
       (/\ thread[t].held.kind = "return"
        /\ IsErrorValue(thread[t].held.value)
        /\ thread[t].outcome # Raise("KeyError"))
          => thread[t].outcome = thread[t].held /\ ~thread[t].executed

-----------------------------------------------------------------------------
(***************************************************************************)
(* Properties of the complementary tables.                                 *)
(***************************************************************************)
\* No category of the table lists itself, and every category it lists is one of
\* the 13 super categories.
WellFormedTable(table) ==
    \A c \in DOMAIN table :
       /\ c \notin Range(table[c])
       /\ Range(table[c]) \subseteq VALID_SUPER_CATEGORIES

\* C30: both complementary tables are well formed and there are 13 super
\* categories; hence in rank_areas the competitor category is none of the
\* complementary categories, and the competitors and complementary businesses
\* counted for an area are different POIs.
C30_CompetitorsApartFromComplementary ==
    /\ Cardinality(VALID_SUPER_CATEGORIES) = 13
    /\ WellFormedTable(COMPLEMENTARY_CATEGORIES)
    /\ WellFormedTable(COMPLEMENTARY_MAP)
    /\ (request # None /\ request.op = "rank_areas") =>
          /\ request.super_category \notin Range(ComplementaryFor(request.super_category))
          /\ \A r \in Range(results) :
                /\ r.competitors
                      <= Cardinality({p \in points_super :
                                         p.super_category = request.super_category})
                /\ r.complementary
                      <= Cardinality({p \in points_super :
                                         p.super_category # request.super_category})
                /\ r.competitors + r.complementary <= Cardinality(points_super)

\* C30 witness: an area with a competitor and a complementary business counted,
\* every POI of the city being one or the other.
C30_Witness ==
    /\ request # None
    /\ request.op = "rank_areas"
    /\ \E r \in Range(results) :
          /\ r.competitors >= 1
          /\ r.complementary >= 1
          /\ r.competitors + r.complementary = Cardinality(points_super)

====
